---- MODULE Spec2Model ----
(***************************************************************************)
(* DevLog blog client (src/unnamed/part_000, src/script.js).               *)
(*                                                                         *)
(* The model covers ErrorHandler (retryWithBackoff, isRetryableError,      *)
(* withTimeout, safeOperation, getUserFriendlyErrorMessage), CookieManager *)
(* (hasLiked), Utils.validateFields, PostManager.likePost and              *)
(* PostManager.submitPost, App.loadPosts, and the draft auto-save of       *)
(* App.setupAutoSave (PerformanceUtils.debounce and createAutoSave),       *)
(* together with the backend rows and the page state they touch.           *)
(*                                                                         *)
(* JavaScript strings are sequences of one-character strings, so that      *)
(* toLowerCase, includes and trim are computed, not assumed.               *)
(*                                                                         *)
(* One macrotask of the browser's event loop is one step: a handler runs   *)
(* from the event that resumes it (a backend response, a timer, a click)   *)
(* through every microtask continuation up to the next awaited remote call *)
(* or timer.                                                               *)
(***************************************************************************)
EXTENDS Integers, Sequences, FiniteSets, TLC

VARIABLES
  isOnline,     \* ErrorHandler.isOnline of each browser
  calls,        \* the retryWithBackoff / safeOperation invocations made so far
  likes,        \* backend: posts.likes of each post
  rows,         \* backend: rows inserted into posts by submitPost
  cookies,      \* per browser: the posts whose liked_<id> cookie is 'true'
  shown,        \* per browser: text of #like-count-<id> of each rendered post
  postTitle,    \* value of the #postTitle input
  postContent,  \* value of the #postContent textarea
  probe,        \* input of the ErrorHandler checks: error and online flag
  verdict,      \* output of the isRetryableError check
  friendly,     \* output of the getUserFriendlyErrorMessage check
  container,    \* ids of the .log-entry nodes of the post list, first child first
  localStorage, \* the draft keys of window.localStorage
  autoSaveTimer,\* per draft key: the pending timer of its debounced save
  burst,        \* the input events on #postContent since its last quiet period
  app,          \* App.init: the file loaded, its position, the steps it has performed
  nodes,        \* the .log-entry nodes created so far, in creation order
  render        \* input and output of the addPostToUI / editPost text checks

vars == <<isOnline, calls, likes, rows, cookies, shown, postTitle, postContent,
          probe, verdict, friendly, container, localStorage, autoSaveTimer, burst,
          app, nodes, render>>

-----------------------------------------------------------------------------
(* Bounds and program constants *)

MaxN == 4            \* largest maxRetries passed to a direct retryWithBackoff call
MaxLikeAttempts == 2 \* invocations of likePost's operation body in one behaviour, over all calls
MaxSubmitAttempts == 2 \* invocations of submitPost's operation body in one behaviour
MaxCountedWrites == 2 \* draft writes of one burst are counted up to this many

MAX_RETRIES == 3
RETRY_DELAY_BASE == 1000
REQUEST_TIMEOUT == 10000

Browsers == {"b1", "b2"}
Posts == {"p1"}
Jitters == {0, 999}  \* samples of Math.random() * 1000, which lies in [0, 1000)

-----------------------------------------------------------------------------
(* JavaScript strings *)

UpperCase == <<"A","B","C","D","E","F","G","H","I","J","K","L","M",
               "N","O","P","Q","R","S","T","U","V","W","X","Y","Z">>
LowerCase == <<"a","b","c","d","e","f","g","h","i","j","k","l","m",
               "n","o","p","q","r","s","t","u","v","w","x","y","z">>

LowerChar(ch) ==
  IF \E i \in 1..26 : UpperCase[i] = ch
  THEN LowerCase[CHOOSE i \in 1..26 : UpperCase[i] = ch]
  ELSE ch

\* String.prototype.toLowerCase
toLowerCase(s) == [i \in 1..Len(s) |-> LowerChar(s[i])]

\* String.prototype.includes
includes(s, sub) ==
  \E i \in 0..(Len(s) - Len(sub)) : SubSeq(s, i + 1, i + Len(sub)) = sub

\* String.prototype.trim (the only whitespace the inputs hold is the space)
RECURSIVE trimStart(_)
trimStart(s) == IF s # <<>> /\ Head(s) = " " THEN trimStart(Tail(s)) ELSE s
RECURSIVE trimEnd(_)
trimEnd(s) ==
  IF s # <<>> /\ s[Len(s)] = " " THEN trimEnd(SubSeq(s, 1, Len(s) - 1)) ELSE s
trim(s) == trimEnd(trimStart(s))

RECURSIVE Pow2(_)
Pow2(n) == IF n = 0 THEN 1 ELSE 2 * Pow2(n - 1)

-----------------------------------------------------------------------------
(* Errors: {status, message}.  status 0 is an absent status property,      *)
(* hasMessage FALSE an absent message property.                            *)

NoStatus == 0

Err(status, hasMessage, message) ==
  [status |-> status, hasMessage |-> hasMessage, message |-> message]

MsgNetworkFailed == <<"N","e","t","w","o","r","k"," ","r","e","q","u","e","s","t"," ","f","a","i","l","e","d">>
MsgNetworkError == <<"N","e","t","w","o","r","k"," ","E","r","r","o","r">>
MsgReqTimeout == <<"R","e","q","u","e","s","t"," ","t","i","m","e","o","u","t">>
MsgConnRefused == <<"C","o","n","n","e","c","t","i","o","n"," ","r","e","f","u","s","e","d">>
MsgRateLimit == <<"R","a","t","e"," ","l","i","m","i","t"," ","e","x","c","e","e","d","e","d">>
MsgRateLimitLc == <<"r","a","t","e"," ","l","i","m","i","t"," ","e","x","c","e","e","d","e","d">>
MsgServerError == <<"I","n","t","e","r","n","a","l"," ","S","e","r","v","e","r"," ","E","r","r","o","r">>
MsgNotFound == <<"P","o","s","t"," ","n","o","t"," ","f","o","u","n","d">>
MsgInvalidPost == <<"I","n","v","a","l","i","d"," ","p","o","s","t"," ","d","a","t","a"," ","p","r","o","v","i","d","e","d">>
MsgInvalidEdit == <<"I","n","v","a","l","i","d"," ","e","d","i","t"," ","d","a","t","a"," ","p","r","o","v","i","d","e","d">>
MsgInvalidCredentials == <<"I","n","v","a","l","i","d"," ","c","r","e","d","e","n","t","i","a","l","s"," ","p","r","o","v","i","d","e","d">>
MsgInvalidLogin == <<"I","n","v","a","l","i","d"," ","l","o","g","i","n"," ","c","r","e","d","e","n","t","i","a","l","s">>
MsgJwt == <<"J","W","T"," ","e","x","p","i","r","e","d">>
MsgIncludesOfUndefined == <<"e","r","r","o","r",".","m","e","s","s","a","g","e"," ","i","s"," ","u","n","d","e","f","i","n","e","d">>

NameOperation == <<"O","p","e","r","a","t","i","o","n">>
NameLike == <<"L","i","k","e"," ","P","o","s","t">>
NameSubmit == <<"S","u","b","m","i","t"," ","P","o","s","t">>
NameLoad == <<"L","o","a","d"," ","P","o","s","t","s">>
NameLogin == <<"L","o","g","i","n">>
NameLogout == <<"L","o","g","o","u","t">>
NameSave == <<"S","a","v","e"," ","E","d","i","t">>
TimedOutAfter == <<" ","t","i","m","e","d"," ","o","u","t"," ","a","f","t","e","r"," ","1","0","0","0","0","m","s">>

\* the operationName each caller passes to safeOperation
operationName(kind) ==
  CASE kind = "like" -> NameLike
    [] kind = "submit" -> NameSubmit
    [] kind = "load" -> NameLoad
    [] kind = "save" -> NameSave
    [] kind = "login" -> NameLogin
    [] kind = "logout" -> NameLogout
    [] OTHER -> NameOperation

\* the rejection of withTimeout's timer: new Error(`${operationName} timed out after ${timeout}ms`)
TimeoutError(kind) == Err(NoStatus, TRUE, operationName(kind) \o TimedOutAfter)

\* the TypeError of reading .includes of an undefined error.message
TypeErrorValue == Err(NoStatus, TRUE, MsgIncludesOfUndefined)

-----------------------------------------------------------------------------
(* ErrorHandler.isRetryableError *)

retryableStatusCodes == {408, 429, 500, 502, 503, 504}

retryableMessages == {
  <<"n","e","t","w","o","r","k"," ","e","r","r","o","r">>,
  <<"t","i","m","e","o","u","t">>,
  <<"c","o","n","n","e","c","t","i","o","n">>,
  <<"r","a","t","e"," ","l","i","m","i","t">>,
  <<"s","e","r","v","e","r"," ","e","r","r","o","r">> }

\* error.message || ''
messageOrEmpty(error) == IF error.hasMessage THEN error.message ELSE <<>>

isRetryableError_CaseSensitive(error, online) ==
  \/ ~online
  \/ error.status # NoStatus /\ error.status \in retryableStatusCodes
  \/ \E msg \in retryableMessages : includes(messageOrEmpty(error), msg)

isRetryableError(error, online) ==
  \/ ~online
  \/ error.status # NoStatus /\ error.status \in retryableStatusCodes
  \/ LET errorMessage == toLowerCase(messageOrEmpty(error))
     IN  \E msg \in retryableMessages : includes(errorMessage, msg)

-----------------------------------------------------------------------------
(* ErrorHandler.getUserFriendlyErrorMessage: the message shown, by kind.   *)
(* "TypeError" stands for the exception of error.message.includes when the *)
(* error has no message property.                                          *)

getUserFriendlyErrorMessage(error, online) ==
  IF ~online THEN "offline"
  ELSE IF ~error.hasMessage THEN "TypeError"
  ELSE IF includes(error.message, <<"t","i","m","e","o","u","t">>) THEN "timeout"
  ELSE IF includes(error.message, <<"r","a","t","e"," ","l","i","m","i","t">>) THEN "rateLimit"
  ELSE IF error.status >= 500 THEN "server"
  ELSE IF error.status = 401 \/ error.status = 403 THEN "auth"
  ELSE "generic"

-----------------------------------------------------------------------------
(* Invocations.  A call is one run of retryWithBackoff: made directly      *)
(* (mode "retry": the operation itself is awaited) or by safeOperation     *)
(* (mode "safe": each attempt is withTimeout(operation())).  bodies holds  *)
(* one entry per invocation of the operation; an entry stays alive after   *)
(* its attempt was abandoned by the timeout.                               *)
(*                                                                         *)
(* History fields, read by no step: classes (the classification of each    *)
(* failure so far), firstError (the failure of attempt 1), nDelays (backoff*)
(* delays begun), remote (remote calls issued), likedAtCall (hasLiked at   *)
(* the time of the call); in a body, args (the field values it read) and   *)
(* up (its write raised posts.likes).                                      *)
(*                                                                         *)
(* Captured by the closures of a call: isLoggedIn (the argument of         *)
(* loadPosts), node (the .log-entry whose button saveEdit was given) and   *)
(* editInterface (the inputs saveEdit was given: empty while they are the  *)
(* inputs of the node, their values once cancelEdit has removed them).     *)

NoPost == "none"

Body(pc, args) == [pc |-> pc, data |-> 0, up |-> FALSE, args |-> args]

NewCall(kind, mode, browser, post, maxRetries) ==
  [kind |-> kind, mode |-> mode, browser |-> browser, post |-> post,
   maxRetries |-> maxRetries, attempt |-> 1, pc |-> "await",
   lastError |-> <<>>, thrown |-> <<>>, result |-> "none",
   delay |-> 0, nDelays |-> 0, alerts |-> <<>>, bodies |-> <<>>,
   classes |-> <<>>, firstError |-> <<>>, remote |-> 0, likedAtCall |-> FALSE,
   isLoggedIn |-> FALSE, node |-> 0, editInterface |-> <<>>]

\* retryWithBackoff: `return await operation()` when the attempt resolves
retryReturn(c, value) == [c EXCEPT !.pc = "returned", !.result = value]

\* safeOperation: the catch block (showUserError is true at every call site)
safeCatch(c, online) ==
  LET userMessage == getUserFriendlyErrorMessage(c.lastError[1], online)
  IN  IF userMessage = "TypeError"
      THEN [c EXCEPT !.pc = "thrown", !.thrown = <<TypeErrorValue>>]
      ELSE [c EXCEPT !.pc = "returned", !.result = "null",
                     !.alerts = Append(@, userMessage)]

\* retryWithBackoff: `throw lastError`, into safeOperation's catch when it is the caller
retryThrow(c, online) ==
  IF c.mode = "safe"
  THEN safeCatch(c, online)
  ELSE [c EXCEPT !.pc = "thrown", !.thrown = c.lastError]

\* lastError = error, and the history of the failure (kept for the calls of Spec)
noteFailure(c, error, online) ==
  IF c.kind = "op"
  THEN [c EXCEPT !.lastError = <<error>>,
                 !.classes = Append(@, isRetryableError(error, online)),
                 !.firstError = IF c.attempt = 1 THEN <<error>> ELSE @]
  ELSE [c EXCEPT !.lastError = <<error>>]

\* `await this.sleep(delay)` begins (the delay is history, kept for the calls of Spec)
retrySleep(c, delay) ==
  [c EXCEPT !.pc = "sleep", !.nDelays = @ + 1,
            !.delay = IF c.kind = "op" THEN delay ELSE 0]

\* a retryWithBackoff that gives up one attempt early
retryCatch_OneAttemptShort(c, error, online, jitter) ==
  LET c1 == noteFailure(c, error, online)
  IN  IF c.attempt >= c.maxRetries - 1 \/ ~isRetryableError(error, online)
      THEN retryThrow(c1, online)
      ELSE retrySleep(c1, RETRY_DELAY_BASE * Pow2(c.attempt - 1) + jitter)

\* a retryWithBackoff that retries whatever the failure
retryCatch_RetryAnything(c, error, online, jitter) ==
  LET c1 == noteFailure(c, error, online)
  IN  IF c.attempt = c.maxRetries
      THEN retryThrow(c1, online)
      ELSE retrySleep(c1, RETRY_DELAY_BASE * Pow2(c.attempt - 1) + jitter)

\* a retryWithBackoff whose backoff starts at twice the base delay
retryCatch_DelayDoubled(c, error, online, jitter) ==
  LET c1 == noteFailure(c, error, online)
  IN  IF c.attempt = c.maxRetries \/ ~isRetryableError(error, online)
      THEN retryThrow(c1, online)
      ELSE retrySleep(c1, RETRY_DELAY_BASE * Pow2(c.attempt) + jitter)

\* retryWithBackoff: the catch block of one attempt
retryCatch(c, error, online, jitter) ==
  LET c1 == noteFailure(c, error, online)
  IN  IF c.attempt = c.maxRetries \/ ~isRetryableError(error, online)
      THEN retryThrow(c1, online)
      ELSE retrySleep(c1, RETRY_DELAY_BASE * Pow2(c.attempt - 1) + jitter)

Finished(c) == c.pc \in {"returned", "thrown"}

\* the attempt whose settlement retryWithBackoff is waiting for
Awaited(c, a) == c.pc = "await" /\ a = c.attempt

\* a validateFields that tests `!value` alone, without trim()
validateFields_NoTrim(title, content) ==
  IF title = <<>> THEN <<"Title cannot be empty">>
  ELSE IF content = <<>> THEN <<"Content cannot be empty">>
  ELSE <<>>

\* Utils.validateFields({Title: title, Content: content}): the alerts it raises
validateFields(title, content) ==
  IF trim(title) = <<>> THEN <<"Title cannot be empty">>
  ELSE IF trim(content) = <<>> THEN <<"Content cannot be empty">>
  ELSE <<>>

\* Utils.validateFields({Email: email, Password: password}): the alerts it raises
validateCredentials(email, password) ==
  IF trim(email) = <<>> THEN <<"Email cannot be empty">>
  ELSE IF trim(password) = <<>> THEN <<"Password cannot be empty">>
  ELSE <<>>

\* the values of #loginEmail and #loginPassword when login() reads them: the user
\* has filled in the login form
LoginEmail == <<"E">>
LoginPassword == <<"P">>

\* CookieManager.hasLiked
hasLiked(jar, postId) == postId \in jar

\* a likePost body without the hasLiked test
startAttempt_NoLikedCheck(c, jar, title, content, online, jitter) ==
  CASE c.kind = "like" ->
         [c EXCEPT !.pc = "await", !.remote = @ + 1,
                   !.bodies = Append(@, Body("read", <<>>))]
    [] c.kind = "submit" ->
         IF validateFields(title, content) # <<>>
         THEN retryCatch([c EXCEPT !.bodies = Append(@, Body("invalid", <<title, content>>)),
                                   !.alerts = @ \o validateFields(title, content)],
                         Err(NoStatus, TRUE, MsgInvalidPost), online, jitter)
         ELSE [c EXCEPT !.pc = "await", !.remote = @ + 1,
                        !.bodies = Append(@, Body("insert", <<title, content>>))]
    [] c.kind = "load" ->
         [c EXCEPT !.pc = "await", !.remote = @ + 1,
                   !.bodies = Append(@, Body("fetch", <<>>))]
    [] c.kind = "save" ->
         IF validateFields(trim(title), trim(content)) # <<>>
         THEN retryCatch([c EXCEPT !.bodies = Append(@, Body("invalid",
                                                  <<trim(title), trim(content)>>)),
                                   !.alerts = @ \o validateFields(trim(title), trim(content))],
                         Err(NoStatus, TRUE, MsgInvalidEdit), online, jitter)
         ELSE [c EXCEPT !.pc = "await", !.remote = @ + 1,
                        !.bodies = Append(@, Body("update", <<trim(title), trim(content)>>))]
    [] c.kind = "login" ->
         IF validateCredentials(LoginEmail, LoginPassword) # <<>>
         THEN retryCatch([c EXCEPT !.bodies = Append(@, Body("invalid", <<>>)),
                                   !.alerts = @ \o validateCredentials(LoginEmail,
                                                                       LoginPassword)],
                         Err(NoStatus, TRUE, MsgInvalidCredentials), online, jitter)
         ELSE [c EXCEPT !.pc = "await", !.remote = @ + 1,
                        !.bodies = Append(@, Body("signIn", <<>>))]
    [] c.kind = "logout" ->
         [c EXCEPT !.pc = "await", !.remote = @ + 1,
                   !.bodies = Append(@, Body("signOut", <<>>))]
    [] OTHER ->
         [c EXCEPT !.pc = "await", !.bodies = Append(@, Body("pending", <<>>))]

\* operation(): the synchronous head of the operation body, up to its first await.
\* title and content are the values of the inputs the body reads: those of the post
\* form for submitPost, those of the edit interface for saveEdit.
startAttempt(c, jar, title, content, online, jitter) ==
  CASE c.kind = "like" ->
         IF hasLiked(jar, c.post)
         THEN retryReturn([c EXCEPT !.bodies = Append(@, Body("alreadyLiked", <<>>))], "false")
         ELSE [c EXCEPT !.pc = "await", !.remote = @ + 1,
                        !.bodies = Append(@, Body("read", <<>>))]
    [] c.kind = "submit" ->
         IF validateFields(title, content) # <<>>
         THEN retryCatch([c EXCEPT !.bodies = Append(@, Body("invalid", <<title, content>>)),
                                   !.alerts = @ \o validateFields(title, content)],
                         Err(NoStatus, TRUE, MsgInvalidPost), online, jitter)
         ELSE [c EXCEPT !.pc = "await", !.remote = @ + 1,
                        !.bodies = Append(@, Body("insert", <<title, content>>))]
    [] c.kind = "load" ->
         [c EXCEPT !.pc = "await", !.remote = @ + 1,
                   !.bodies = Append(@, Body("fetch", <<>>))]
    [] c.kind = "save" ->
         IF validateFields(trim(title), trim(content)) # <<>>
         THEN retryCatch([c EXCEPT !.bodies = Append(@, Body("invalid",
                                                  <<trim(title), trim(content)>>)),
                                   !.alerts = @ \o validateFields(trim(title), trim(content))],
                         Err(NoStatus, TRUE, MsgInvalidEdit), online, jitter)
         ELSE [c EXCEPT !.pc = "await", !.remote = @ + 1,
                        !.bodies = Append(@, Body("update", <<trim(title), trim(content)>>))]
    [] c.kind = "login" ->
         IF validateCredentials(LoginEmail, LoginPassword) # <<>>
         THEN retryCatch([c EXCEPT !.bodies = Append(@, Body("invalid", <<>>)),
                                   !.alerts = @ \o validateCredentials(LoginEmail,
                                                                       LoginPassword)],
                         Err(NoStatus, TRUE, MsgInvalidCredentials), online, jitter)
         ELSE [c EXCEPT !.pc = "await", !.remote = @ + 1,
                        !.bodies = Append(@, Body("signIn", <<>>))]
    [] c.kind = "logout" ->
         [c EXCEPT !.pc = "await", !.remote = @ + 1,
                   !.bodies = Append(@, Body("signOut", <<>>))]
    [] OTHER ->
         [c EXCEPT !.pc = "await", !.bodies = Append(@, Body("pending", <<>>))]

-----------------------------------------------------------------------------
(* The post list and the drafts of the post form *)

\* UIManager.addPostToUI: logContainer.prepend(postElement)
addPostToUI(list, id) == <<id>> \o list

\* data.forEach(post => UIManager.addPostToUI(...)) of loadPosts
RECURSIVE addAllToUI(_, _)
addAllToUI(list, data) ==
  IF data = <<>> THEN list ELSE addAllToUI(addPostToUI(list, Head(data)), Tail(data))

DraftKeys == {"draft_post_title", "draft_post_content"}

\* localStorage.getItem(key): null, or the stored string
NoItem == [present |-> FALSE, value |-> <<>>]
Item(v) == [present |-> TRUE, value |-> v]

\* timeoutId of a debounced function: no timer pending, or one holding the call's arguments
NoTimer == [armed |-> FALSE, args |-> <<>>]
Timer(v) == [armed |-> TRUE, args |-> v]

(* History of the input events on #postContent, read by no step.  phase: "armed" or   *)
(* "unarmed" after an input event that did or did not set the save timer, "quiet"     *)
(* once AUTO_SAVE_DELAY has passed since the last input event, "none" before the      *)
(* first input event and once something other than an input event has set the field.  *)
(* writes: the setItem calls of draft_post_content since the burst began.             *)
NoBurst == [phase |-> "none", writes |-> 0]

-----------------------------------------------------------------------------
(* The .log-entry nodes.  nodes keeps every node in creation order, also   *)
(* after it was removed from the document (attached FALSE): the closures   *)
(* of a saveEdit in flight still hold it.  The post list shows the         *)
(* attached ones, last created first, as every node enters by prepend.     *)

\* the edit interface of a node: not created yet, or the values of its inputs and
\* whether its elements are in the document
NoEditInterface == [inserted |-> FALSE, titleInput |-> <<>>, contentTextarea |-> <<>>]

\* UIManager.addPostToUI: the node built for a post.  editBtn is the onclick of the
\* .editBtn button and label its text; without showDeleteBtn neither button exists.
NewEntry(id, title, content, showDeleteBtn) ==
  [id |-> id, title |-> title, content |-> content, attached |-> TRUE,
   editBtn |-> IF showDeleteBtn THEN "editPost" ELSE "absent",
   label |-> IF showDeleteBtn THEN "Edit" ELSE "absent",
   deleteBtn |-> IF showDeleteBtn THEN "shown" ELSE "absent",
   titleHidden |-> FALSE, contentHidden |-> FALSE,
   editInterface |-> NoEditInterface]

\* the title and the content of every row a fetch returns (rows are told apart by id)
RowText == <<"T">>

\* data.forEach(post => UIManager.addPostToUI(..., isLoggedIn, post.id, ...)) of loadPosts
RECURSIVE addAllEntries(_, _, _)
addAllEntries(ns, data, isLoggedIn) ==
  IF data = <<>> THEN ns
  ELSE addAllEntries(Append(ns, NewEntry(Head(data), RowText, RowText, isLoggedIn)),
                     Tail(data), isLoggedIn)

\* the ids of the children of the post list, first child first
RECURSIVE ContainerOf(_)
ContainerOf(ns) ==
  IF ns = <<>> THEN <<>>
  ELSE LET rest == ContainerOf(SubSeq(ns, 1, Len(ns) - 1))
       IN  IF ns[Len(ns)].attached THEN <<ns[Len(ns)].id>> \o rest ELSE rest

-----------------------------------------------------------------------------
(* App.init.  variant is the file the page loads: src/unnamed/part_000 or  *)
(* src/script.js.  steps is the log of what init has performed, read by no *)
(* step: "errorListeners" (ErrorHandler.init), "session" (getSession has   *)
(* resolved), "authUI" (AuthManager.updateUI), "loadPosts" (loadPosts is   *)
(* called), "eventListeners" (setupEventListeners), "autoSave"             *)
(* (setupAutoSave).  loading is the overlay shown by toggleLoading.        *)

Variants == {"part_000", "script.js"}

NoApp == [variant |-> "part_000", pc |-> "idle", steps |-> <<>>,
          isLoggedIn |-> FALSE, loading |-> FALSE, alerts |-> <<>>,
          session |-> FALSE, authUI |-> "unset"]

\* AuthManager.updateUI(isLoggedIn): newPostBtn and logoutBtn are shown and loginBtn
\* hidden when isLoggedIn, the other way round when not
updateUI(a, isLoggedIn) == [a EXCEPT !.authUI = IF isLoggedIn THEN "admin" ELSE "guest"]

\* the catch block of App.init
initCatch(a) ==
  [a EXCEPT !.pc = "failed", !.loading = FALSE,
            !.alerts = IF a.variant = "part_000"
                       THEN Append(@, "Failed to initialize application") ELSE @]

\* an App.init that starts auto-save before it attaches the event listeners
initAfterLoad_AutoSaveFirst(a) ==
  IF a.variant = "part_000"
  THEN [a EXCEPT !.pc = "done", !.loading = FALSE,
                 !.steps = @ \o <<"autoSave", "eventListeners">>]
  ELSE initCatch(a)

\* App.init after `await this.loadPosts(isLoggedIn)`: setupEventListeners,
\* setupAutoSave, toggleLoading(false).  src/script.js defines neither method, so
\* this.setupEventListeners() throws a TypeError into the catch block.
initAfterLoad(a) ==
  IF a.variant = "part_000"
  THEN [a EXCEPT !.pc = "done", !.loading = FALSE,
                 !.steps = @ \o <<"eventListeners", "autoSave">>]
  ELSE initCatch(a)

\* the continuation of App.init when the call c it awaits has just ended (loadPosts
\* returns result !== null whatever the result; a safeOperation that threw rethrows)
initResume(a, c) ==
  IF a.pc = "loading" /\ c.kind = "load" /\ Finished(c)
  THEN IF c.pc = "thrown" THEN initCatch(a) ELSE initAfterLoad(a)
  ELSE a

-----------------------------------------------------------------------------
(* The text of a post on its way through addPostToUI and editPost:         *)
(* escapeHtml and encodeURIComponent, the HTML parser that reads the       *)
(* markup assigned to innerHTML, and decodeURIComponent.                   *)

StartsWith(s, prefix) == Len(s) >= Len(prefix) /\ SubSeq(s, 1, Len(prefix)) = prefix
Drop(s, n) == SubSeq(s, n + 1, Len(s))
IsLetter(ch) == \E i \in 1..26 : LowerCase[i] = ch \/ UpperCase[i] = ch

EntAmp == <<"&","a","m","p",";">>
EntLt == <<"&","l","t",";">>
EntGt == <<"&","g","t",";">>
EntQuot == <<"&","q","u","o","t",";">>

\* an escapeHtml that leaves the ampersand as it is
RECURSIVE escapeHtml_KeepsAmpersand(_)
escapeHtml_KeepsAmpersand(text) ==
  IF text = <<>> THEN <<>>
  ELSE (CASE Head(text) = "<" -> EntLt
          [] Head(text) = ">" -> EntGt
          [] OTHER -> <<Head(text)>>) \o escapeHtml_KeepsAmpersand(Tail(text))

\* UIManager.escapeHtml: div.textContent = text; return div.innerHTML.  The
\* serialisation of a text node replaces & < > by their character references.
RECURSIVE escapeHtml(_)
escapeHtml(text) ==
  IF text = <<>> THEN <<>>
  ELSE (CASE Head(text) = "&" -> EntAmp
          [] Head(text) = "<" -> EntLt
          [] Head(text) = ">" -> EntGt
          [] OTHER -> <<Head(text)>>) \o escapeHtml(Tail(text))

\* the markup after the tag that begins s, or nothing when the tag is not closed
RECURSIVE AfterTag(_)
AfterTag(s) ==
  IF s = <<>> THEN <<>> ELSE IF Head(s) = ">" THEN Tail(s) ELSE AfterTag(Tail(s))

\* the HTML parser on the markup put between <h2> and </h2>, or between <span> and
\* </span>: the characters of the text it builds, and the number of tags it read as
\* markup (a `<` opens a tag when a letter or `/` follows it)
RECURSIVE parseText(_)
parseText(s) ==
  IF s = <<>> THEN [text |-> <<>>, tags |-> 0]
  ELSE IF StartsWith(s, EntAmp)
       THEN [parseText(Drop(s, 5)) EXCEPT !.text = <<"&">> \o @]
  ELSE IF StartsWith(s, EntLt)
       THEN [parseText(Drop(s, 4)) EXCEPT !.text = <<"<">> \o @]
  ELSE IF StartsWith(s, EntGt)
       THEN [parseText(Drop(s, 4)) EXCEPT !.text = <<">">> \o @]
  ELSE IF StartsWith(s, EntQuot)
       THEN [parseText(Drop(s, 6)) EXCEPT !.text = <<"\"">> \o @]
  ELSE IF Head(s) = "<" /\ Len(s) >= 2 /\ (IsLetter(s[2]) \/ s[2] = "/")
       THEN [parseText(AfterTag(s)) EXCEPT !.tags = @ + 1]
  ELSE [parseText(Tail(s)) EXCEPT !.text = <<Head(s)>> \o @]

\* the HTML parser on a double-quoted attribute value: it ends at the first `"`,
\* and character references are replaced
RECURSIVE parseAttribute(_)
parseAttribute(s) ==
  IF s = <<>> \/ Head(s) = "\"" THEN <<>>
  ELSE IF StartsWith(s, EntAmp) THEN <<"&">> \o parseAttribute(Drop(s, 5))
  ELSE IF StartsWith(s, EntLt) THEN <<"<">> \o parseAttribute(Drop(s, 4))
  ELSE IF StartsWith(s, EntGt) THEN <<">">> \o parseAttribute(Drop(s, 4))
  ELSE IF StartsWith(s, EntQuot) THEN <<"\"">> \o parseAttribute(Drop(s, 6))
  ELSE <<Head(s)>> \o parseAttribute(Tail(s))

\* the characters encodeURIComponent leaves as they are: A-Z a-z 0-9 - _ . ! ~ * ' ( )
Unreserved(ch) ==
  \/ IsLetter(ch)
  \/ ch \in {"0", "1", "2", "3", "4", "5", "6", "7", "8", "9"}
  \/ ch \in {"-", "_", ".", "!", "~", "*", "'", "(", ")"}

\* the UTF-8 byte, in hexadecimal, of the other characters of the texts below
PercentCode ==
  [ch \in {" ", "\"", "#", "%", "&", "<", ">", ";"} |->
     CASE ch = " " -> <<"2","0">>
       [] ch = "\"" -> <<"2","2">>
       [] ch = "#" -> <<"2","3">>
       [] ch = "%" -> <<"2","5">>
       [] ch = "&" -> <<"2","6">>
       [] ch = "<" -> <<"3","C">>
       [] ch = ">" -> <<"3","E">>
       [] ch = ";" -> <<"3","B">>]

\* an encodeURIComponent that leaves the percent sign as it is
RECURSIVE encodeURIComponent_KeepsPercent(_)
encodeURIComponent_KeepsPercent(s) ==
  IF s = <<>> THEN <<>>
  ELSE (IF Unreserved(Head(s)) \/ Head(s) = "%" THEN <<Head(s)>>
        ELSE <<"%">> \o PercentCode[Head(s)]) \o encodeURIComponent_KeepsPercent(Tail(s))

\* encodeURIComponent
RECURSIVE encodeURIComponent(_)
encodeURIComponent(s) ==
  IF s = <<>> THEN <<>>
  ELSE (IF Unreserved(Head(s)) THEN <<Head(s)>>
        ELSE <<"%">> \o PercentCode[Head(s)]) \o encodeURIComponent(Tail(s))

\* decodeURIComponent: a `%` and the two digits after it stand for one byte; a `%`
\* that no byte follows makes it throw a URIError
URIError == <<"URIError">>
RECURSIVE decodeURIComponent(_)
decodeURIComponent(s) ==
  IF s = <<>> THEN <<>>
  ELSE IF Head(s) = "%"
       THEN IF Len(s) >= 3 /\ \E ch \in DOMAIN PercentCode : PercentCode[ch] = SubSeq(s, 2, 3)
            THEN LET rest == decodeURIComponent(Drop(s, 3))
                 IN  IF rest = URIError THEN URIError
                     ELSE <<CHOOSE ch \in DOMAIN PercentCode : PercentCode[ch] = SubSeq(s, 2, 3)>>
                            \o rest
            ELSE URIError
  ELSE LET rest == decodeURIComponent(Tail(s))
       IN  IF rest = URIError THEN URIError ELSE <<Head(s)>> \o rest

\* marked.parse(content, {breaks: true}): the markup is not computed, only named
\* by the source it is made from; the markup of the empty source is empty
markedParse(content) == [markdown |-> content]
innerTextOf(html) == IF html.markdown = <<>> THEN <<>> ELSE <<"rendered">>

\* the texts handed to addPostToUI
RECURSIVE TextsOver(_, _)
TextsOver(chars, n) ==
  IF n = 0 THEN {<<>>}
  ELSE LET shorter == TextsOver(chars, n - 1)
       IN  shorter \cup {Append(t, ch) : t \in shorter, ch \in chars}

MaxTextLen == 2

TitleTexts ==
  TextsOver({"a", "<", ">", "&"}, MaxTextLen)
    \cup { <<"<","b",">">>, <<"<","b",">","a","<","/","b",">">>,
           <<"&","l","t",";">>, <<"&","a","m","p",";">>, <<"a"," ","&"," ","b">> }

DateTexts == { <<"2","0","2","5","-","0","5","-","0","2">>, <<"<","b",">">> }

ContentTexts ==
  TextsOver({"a", "%", "2", "\"", " ", "&"}, MaxTextLen)
    \cup { <<"%","2","5">>, <<"%","2","0">>, <<"*","*","a","*","*">>,
           <<"&","a","m","p",";">>, <<"<","b",">">>, <<"#"," ","a">> }

NoRender == [phase |-> "none", title |-> <<>>, content |-> <<>>, date |-> <<>>,
             h2 |-> parseText(<<>>), span |-> parseText(<<>>), md |-> <<>>,
             p |-> markedParse(<<>>), titleInput |-> <<>>, contentTextarea |-> <<>>]

-----------------------------------------------------------------------------
(* Initial state *)

NoProbe == [error |-> Err(NoStatus, FALSE, <<>>), online |-> TRUE]

InitProgram ==
  /\ isOnline = [b \in Browsers |-> TRUE]
  /\ calls = <<>>
  /\ likes = [p \in Posts |-> 0]
  /\ rows = 0
  /\ cookies = [b \in Browsers |-> {}]
  /\ shown = [b \in Browsers |-> [p \in Posts |-> 0]]
  /\ postTitle = <<>>
  /\ postContent = <<>>
  /\ localStorage = [k \in DraftKeys |-> NoItem]
  /\ autoSaveTimer = [k \in DraftKeys |-> NoTimer]
  /\ burst = NoBurst

\* no post is rendered and App.init has not begun
NoPage ==
  /\ container = <<>>
  /\ nodes = <<>>
  /\ app = NoApp

\* the text checks have no input
NoCheck ==
  /\ probe = NoProbe
  /\ verdict = "unset"
  /\ friendly = "unset"
  /\ render = NoRender

Init ==
  /\ InitProgram
  /\ NoPage
  /\ NoCheck

-----------------------------------------------------------------------------
(* Steps common to every operation *)

backendVars == <<likes, rows>>
browserVars == <<cookies, shown, postTitle, postContent>>
checkVars == <<probe, verdict, friendly>>
pageVars == <<container, localStorage, autoSaveTimer, burst>>
uiVars == <<app, nodes, render>>

\* window 'online' / 'offline' event
NetworkChange(b) ==
  /\ isOnline' = [isOnline EXCEPT ![b] = ~@]
  /\ UNCHANGED <<calls, backendVars, browserVars, checkVars, pageVars, uiVars>>

\* the inputs whose values the operation body of a call reads
inputsOf(c) ==
  IF c.editInterface # <<>> THEN c.editInterface[1] ELSE nodes[c.node].editInterface
titleRead(c) == IF c.kind = "save" THEN inputsOf(c).titleInput ELSE postTitle
contentRead(c) == IF c.kind = "save" THEN inputsOf(c).contentTextarea ELSE postContent

\* retryWithBackoff: `await this.sleep(delay)` ends, the loop starts the next attempt
SleepDone(i) ==
  /\ calls[i].pc = "sleep"
  /\ \E jitter \in Jitters :
       LET c == calls[i]
           next == [c EXCEPT !.attempt = @ + 1, !.delay = 0]
       IN  calls' = [calls EXCEPT ![i] =
             startAttempt(next, cookies[c.browser], titleRead(c), contentRead(c),
                          isOnline[c.browser], jitter)]
  /\ UNCHANGED <<isOnline, backendVars, browserVars, checkVars, pageVars, uiVars>>

\* a withTimeout whose timer cancels the operation it raced
Timeout_Cancelling(i) ==
  /\ calls[i].mode = "safe"
  /\ calls[i].pc = "await"
  /\ \E jitter \in Jitters :
       LET c == [calls[i] EXCEPT !.bodies[calls[i].attempt].pc = "cancelled"]
       IN  calls' = [calls EXCEPT ![i] =
             retryCatch(c, TimeoutError(c.kind), isOnline[c.browser], jitter)]
  /\ app' = initResume(app, calls'[i])
  /\ UNCHANGED <<isOnline, backendVars, browserVars, checkVars, pageVars, nodes, render>>

\* withTimeout: the timer fires before the operation has settled; when that ends the
\* loadPosts call App.init is awaiting, init goes on in the same task
Timeout(i) ==
  /\ calls[i].mode = "safe"
  /\ calls[i].pc = "await"
  /\ \E jitter \in Jitters :
       LET c == calls[i]
       IN  calls' = [calls EXCEPT ![i] =
             retryCatch(c, TimeoutError(c.kind), isOnline[c.browser], jitter)]
  /\ app' = initResume(app, calls'[i])
  /\ UNCHANGED <<isOnline, backendVars, browserVars, checkVars, pageVars, nodes, render>>

-----------------------------------------------------------------------------
(* An operation that stands for any fallible asynchronous operation *)

OpBrowser == "b1"

OpStatuses == {NoStatus, 401, 503}
OpMessages == {MsgNotFound, MsgReqTimeout, MsgRateLimitLc}
OpErrors ==
  {Err(s, TRUE, m) : s \in OpStatuses, m \in OpMessages}
    \cup {Err(s, FALSE, <<>>) : s \in OpStatuses}

CanInvokeOp == IF calls = <<>> THEN TRUE ELSE Finished(calls[1])

\* retryWithBackoff(operation, maxRetries) called directly
CallRetryWithBackoff(n) ==
  /\ CanInvokeOp
  /\ calls' = <<startAttempt(NewCall("op", "retry", OpBrowser, NoPost, n),
                             {}, <<>>, <<>>, isOnline[OpBrowser], 0)>>
  /\ UNCHANGED <<isOnline, backendVars, browserVars, checkVars, pageVars, uiVars>>

\* safeOperation(operation, operationName, true)
CallSafeOperation ==
  /\ CanInvokeOp
  /\ calls' = <<startAttempt(NewCall("op", "safe", OpBrowser, NoPost, MAX_RETRIES),
                             {}, <<>>, <<>>, isOnline[OpBrowser], 0)>>
  /\ UNCHANGED <<isOnline, backendVars, browserVars, checkVars, pageVars, uiVars>>

\* the operation's promise resolves
OpResolve(i, a) ==
  /\ calls[i].kind = "op"
  /\ calls[i].bodies[a].pc = "pending"
  /\ LET c == [calls[i] EXCEPT !.bodies[a].pc = "resolved"]
     IN  calls' = [calls EXCEPT ![i] =
           IF Awaited(calls[i], a) THEN retryReturn(c, "data") ELSE c]
  /\ UNCHANGED <<isOnline, backendVars, browserVars, checkVars, pageVars, uiVars>>

\* the operation's promise rejects
OpReject(i, a) ==
  /\ calls[i].kind = "op"
  /\ calls[i].bodies[a].pc = "pending"
  /\ \E error \in OpErrors, jitter \in Jitters :
       LET c == [calls[i] EXCEPT !.bodies[a].pc = "rejected"]
       IN  calls' = [calls EXCEPT ![i] =
             IF Awaited(calls[i], a)
             THEN retryCatch(c, error, isOnline[c.browser], jitter)
             ELSE c]
  /\ UNCHANGED <<isOnline, backendVars, browserVars, checkVars, pageVars, uiVars>>

Next ==
  \/ \E n \in 1..MaxN : CallRetryWithBackoff(n)
  \/ CallSafeOperation
  \/ \E i \in DOMAIN calls : \E a \in DOMAIN calls[i].bodies : OpResolve(i, a)
  \/ \E i \in DOMAIN calls : \E a \in DOMAIN calls[i].bodies : OpReject(i, a)
  \/ \E i \in DOMAIN calls : Timeout(i)
  \/ \E i \in DOMAIN calls : SleepDone(i)
  \/ NetworkChange(OpBrowser)

Spec == Init /\ [][Next]_vars

-----------------------------------------------------------------------------
(* isRetryableError applied to one error under one online flag *)

ProbeStatuses == {NoStatus, 400, 401, 403, 404, 408, 429, 500, 502, 503, 504}
ProbeMessages == {<<>>, MsgNotFound, MsgNetworkFailed, MsgNetworkError, MsgReqTimeout,
                  MsgConnRefused, MsgRateLimit, MsgServerError, MsgJwt,
                  NameLike \o TimedOutAfter}
ProbeErrors ==
  {Err(s, TRUE, m) : s \in ProbeStatuses, m \in ProbeMessages}
    \cup {Err(s, FALSE, <<>>) : s \in ProbeStatuses}

InitClassify ==
  /\ InitProgram
  /\ NoPage
  /\ probe \in [error : ProbeErrors, online : BOOLEAN]
  /\ verdict = "unset"
  /\ friendly = "unset"
  /\ render = NoRender

Classify ==
  /\ verdict = "unset"
  /\ verdict' = IF isRetryableError(probe.error, probe.online)
                THEN "retryable" ELSE "notRetryable"
  /\ UNCHANGED <<isOnline, calls, backendVars, browserVars, probe, friendly, pageVars, uiVars>>

\* getUserFriendlyErrorMessage applied to the same error under the same online flag
Describe ==
  /\ friendly = "unset"
  /\ friendly' = getUserFriendlyErrorMessage(probe.error, probe.online)
  /\ UNCHANGED <<isOnline, calls, backendVars, browserVars, probe, verdict, pageVars, uiVars>>

NextClassify == Classify \/ Describe

SpecClassify == InitClassify /\ [][NextClassify]_vars

-----------------------------------------------------------------------------
(* PostManager.likePost.  Every post of Posts is rendered in every browser. *)
(* likePost is reachable as window.likePost as well as from the like       *)
(* button, so a call is not tied to the button being enabled.              *)

LikeErrors == {Err(503, TRUE, MsgServerError), Err(NoStatus, TRUE, MsgNotFound)}

\* operation bodies started so far, over all calls
RECURSIVE SumBodies(_)
SumBodies(cs) == IF cs = <<>> THEN 0 ELSE Len(Head(cs).bodies) + SumBodies(Tail(cs))
AttemptsMade == SumBodies(calls)

\* the retry loop of a likePost call goes round, while the model's budget lasts
LikeRetry(i) ==
  /\ AttemptsMade < MaxLikeAttempts
  /\ calls[i].kind = "like"
  /\ SleepDone(i)

\* likePost(postId): safeOperation(async () => {...}, 'Like Post', true)
LikePost(b, p) ==
  /\ AttemptsMade < MaxLikeAttempts
  /\ \E jitter \in Jitters :
       LET c == [NewCall("like", "safe", b, p, MAX_RETRIES)
                   EXCEPT !.likedAtCall = p \in cookies[b]]
       IN  calls' = Append(calls,
             startAttempt(c, cookies[b], postTitle, postContent, isOnline[b], jitter))
  /\ UNCHANGED <<isOnline, backendVars, browserVars, checkVars, pageVars, uiVars>>

\* a likePost that sets the liked cookie before the update has answered
LikeReadOk_CookieFirst(i, a) ==
  /\ calls[i].kind = "like"
  /\ calls[i].bodies[a].pc = "read"
  /\ calls' = [calls EXCEPT ![i].bodies[a].pc = "write",
                            ![i].bodies[a].data = likes[calls[i].post],
                            ![i].remote = @ + 1]
  /\ cookies' = [cookies EXCEPT ![calls[i].browser] = @ \cup {calls[i].post}]
  /\ UNCHANGED <<isOnline, backendVars, shown, postTitle, postContent, checkVars, pageVars, uiVars>>

\* the select of posts.likes answers with the row; the update is issued
LikeReadOk(i, a) ==
  /\ calls[i].kind = "like"
  /\ calls[i].bodies[a].pc = "read"
  /\ calls' = [calls EXCEPT ![i].bodies[a].pc = "write",
                            ![i].bodies[a].data = likes[calls[i].post],
                            ![i].remote = @ + 1]
  /\ UNCHANGED <<isOnline, backendVars, browserVars, checkVars, pageVars, uiVars>>

\* the select answers with an error or without a row: throw error || new Error('Post not found')
LikeReadFail(i, a) ==
  /\ calls[i].kind = "like"
  /\ calls[i].bodies[a].pc = "read"
  /\ \E error \in LikeErrors, jitter \in Jitters :
       LET c == [calls[i] EXCEPT !.bodies[a].pc = "readFailed"]
       IN  calls' = [calls EXCEPT ![i] =
             IF Awaited(calls[i], a)
             THEN retryCatch(c, error, isOnline[c.browser], jitter)
             ELSE c]
  /\ UNCHANGED <<isOnline, backendVars, browserVars, checkVars, pageVars, uiVars>>

\* an update that adds one to the stored count instead of writing the count it computed
LikeWriteOk_AtomicIncrement(i, a) ==
  /\ calls[i].kind = "like"
  /\ calls[i].bodies[a].pc = "write"
  /\ LET c0 == calls[i]
         newLikes == likes[c0.post] + 1
         c == [c0 EXCEPT !.bodies[a].pc = "recorded",
                         !.bodies[a].up = newLikes > likes[c0.post]]
     IN  /\ likes' = [likes EXCEPT ![c0.post] = newLikes]
         /\ shown' = [shown EXCEPT ![c0.browser][c0.post] = newLikes]
         /\ cookies' = [cookies EXCEPT ![c0.browser] = @ \cup {c0.post}]
         /\ calls' = [calls EXCEPT ![i] =
              IF Awaited(c0, a) THEN retryReturn(c, "true") ELSE c]
  /\ UNCHANGED <<isOnline, rows, postTitle, postContent, checkVars, pageVars, uiVars>>

\* the update of posts.likes is applied and answers: updateLikeUI, then the liked cookie
LikeWriteOk(i, a) ==
  /\ calls[i].kind = "like"
  /\ calls[i].bodies[a].pc = "write"
  /\ LET c0 == calls[i]
         newLikes == c0.bodies[a].data + 1
         c == [c0 EXCEPT !.bodies[a].pc = "recorded",
                         !.bodies[a].up = newLikes > likes[c0.post]]
     IN  /\ likes' = [likes EXCEPT ![c0.post] = newLikes]
         /\ shown' = [shown EXCEPT ![c0.browser][c0.post] = newLikes]
         /\ cookies' = [cookies EXCEPT ![c0.browser] = @ \cup {c0.post}]
         /\ calls' = [calls EXCEPT ![i] =
              IF Awaited(c0, a) THEN retryReturn(c, "true") ELSE c]
  /\ UNCHANGED <<isOnline, rows, postTitle, postContent, checkVars, pageVars, uiVars>>

\* the update answers with an error: throw updateError
LikeWriteFail(i, a) ==
  /\ calls[i].kind = "like"
  /\ calls[i].bodies[a].pc = "write"
  /\ \E error \in LikeErrors, jitter \in Jitters :
       LET c == [calls[i] EXCEPT !.bodies[a].pc = "writeFailed"]
       IN  calls' = [calls EXCEPT ![i] =
             IF Awaited(calls[i], a)
             THEN retryCatch(c, error, isOnline[c.browser], jitter)
             ELSE c]
  /\ UNCHANGED <<isOnline, backendVars, browserVars, checkVars, pageVars, uiVars>>

\* likePost: `return result !== null`
likePostReturn(c) == c.result # "null"

NextLike ==
  \/ \E b \in Browsers, p \in Posts : LikePost(b, p)
  \/ \E i \in DOMAIN calls : \E a \in DOMAIN calls[i].bodies : LikeReadOk(i, a)
  \/ \E i \in DOMAIN calls : \E a \in DOMAIN calls[i].bodies : LikeReadFail(i, a)
  \/ \E i \in DOMAIN calls : \E a \in DOMAIN calls[i].bodies : LikeWriteOk(i, a)
  \/ \E i \in DOMAIN calls : \E a \in DOMAIN calls[i].bodies : LikeWriteFail(i, a)
  \/ \E i \in DOMAIN calls : Timeout(i)
  \/ \E i \in DOMAIN calls : LikeRetry(i)
  \/ NetworkChange(OpBrowser)

SpecLike == Init /\ [][NextLike]_vars

(* likePost calls racing on a backend that answers every request: no failure, *)
(* no timeout, no retry.                                                      *)
MaxRacingLikes == 3  \* likePost calls in one behaviour of SpecLikeRace

\* likePost(postId), while fewer than MaxRacingLikes calls were made
RacingLikePost(b, p) ==
  /\ Len(calls) < MaxRacingLikes
  /\ \E jitter \in Jitters :
       LET c == [NewCall("like", "safe", b, p, MAX_RETRIES)
                   EXCEPT !.likedAtCall = p \in cookies[b]]
       IN  calls' = Append(calls,
             startAttempt(c, cookies[b], postTitle, postContent, isOnline[b], jitter))
  /\ UNCHANGED <<isOnline, backendVars, browserVars, checkVars, pageVars, uiVars>>

NextLikeRace ==
  \/ \E b \in Browsers, p \in Posts : RacingLikePost(b, p)
  \/ \E i \in DOMAIN calls : \E a \in DOMAIN calls[i].bodies : LikeReadOk(i, a)
  \/ \E i \in DOMAIN calls : \E a \in DOMAIN calls[i].bodies : LikeWriteOk(i, a)

SpecLikeRace == Init /\ [][NextLikeRace]_vars

-----------------------------------------------------------------------------
(* PostManager.submitPost, and the user's typing into the post form *)

SubmitErrors == {Err(503, TRUE, MsgServerError), Err(401, TRUE, MsgJwt)}

FieldValues == {<<>>, <<" ">>, <<"T">>}

\* the user edits #postTitle; the auto-save listeners are left out of this step
\* (they are InputTitle's), as they neither read nor write what submitPost reads
TypeTitle(v) ==
  /\ v # postTitle
  /\ postTitle' = v
  /\ UNCHANGED <<isOnline, calls, backendVars, cookies, shown, postContent, checkVars, pageVars, uiVars>>

\* the user edits #postContent; the auto-save listeners are left out, as for the title
TypeContent(v) ==
  /\ v # postContent
  /\ postContent' = v
  /\ UNCHANGED <<isOnline, calls, backendVars, cookies, shown, postTitle, checkVars, pageVars, uiVars>>

\* submitPost(): safeOperation(async () => {...}, 'Submit Post', true)
SubmitPost ==
  /\ AttemptsMade < MaxSubmitAttempts
  /\ \E jitter \in Jitters :
       calls' = Append(calls,
         startAttempt(NewCall("submit", "safe", OpBrowser, NoPost, MAX_RETRIES),
                      cookies[OpBrowser], postTitle, postContent,
                      isOnline[OpBrowser], jitter))
  /\ UNCHANGED <<isOnline, backendVars, browserVars, checkVars, pageVars, uiVars>>

\* the retry loop of a submitPost call goes round, while the model's budget lasts
SubmitRetry(i) ==
  /\ AttemptsMade < MaxSubmitAttempts
  /\ calls[i].kind = "submit"
  /\ SleepDone(i)

\* the id the backend gives to the row it inserts
NewIds == <<"n1", "n2", "n3", "n4", "n5", "n6">>

\* a patched submitPost that removes the content draft alone
SubmitInsertOk_KeepsTitleDraft(i, a) ==
  /\ calls[i].kind = "submit"
  /\ calls[i].bodies[a].pc = "insert"
  /\ rows' = rows + 1
  /\ postTitle' = <<>>
  /\ postContent' = <<>>
  /\ container' = addPostToUI(container, NewIds[rows + 1])
  /\ nodes' = Append(nodes, NewEntry(NewIds[rows + 1], trim(calls[i].bodies[a].args[1]),
                                     trim(calls[i].bodies[a].args[2]), TRUE))
  /\ burst' = [burst EXCEPT !.phase = "none"]
  /\ localStorage' = IF Awaited(calls[i], a)
                     THEN [localStorage EXCEPT !["draft_post_content"] = NoItem]
                     ELSE localStorage
  /\ LET c == [calls[i] EXCEPT !.bodies[a].pc = "added",
                               !.alerts = Append(@, "Post added successfully")]
     IN  calls' = [calls EXCEPT ![i] =
           IF Awaited(calls[i], a) THEN retryReturn(c, "newPost") ELSE c]
  /\ UNCHANGED <<isOnline, likes, cookies, shown, checkVars, autoSaveTimer, app, render>>

\* the insert is applied and answers with the new row: success alert, clearInputs,
\* addPostToUI; when safeOperation was still awaiting this attempt, submitPost
\* returns true and the wrapper that App.setupAutoSave put around it removes both
\* draft keys
SubmitInsertOk(i, a) ==
  /\ calls[i].kind = "submit"
  /\ calls[i].bodies[a].pc = "insert"
  /\ rows' = rows + 1
  /\ postTitle' = <<>>
  /\ postContent' = <<>>
  /\ container' = addPostToUI(container, NewIds[rows + 1])
  /\ nodes' = Append(nodes, NewEntry(NewIds[rows + 1], trim(calls[i].bodies[a].args[1]),
                                     trim(calls[i].bodies[a].args[2]), TRUE))
  /\ burst' = [burst EXCEPT !.phase = "none"]
  /\ localStorage' = IF Awaited(calls[i], a)
                     THEN [k \in DraftKeys |-> NoItem]
                     ELSE localStorage
  /\ LET c == [calls[i] EXCEPT !.bodies[a].pc = "added",
                               !.alerts = Append(@, "Post added successfully")]
     IN  calls' = [calls EXCEPT ![i] =
           IF Awaited(calls[i], a) THEN retryReturn(c, "newPost") ELSE c]
  /\ UNCHANGED <<isOnline, likes, cookies, shown, checkVars, autoSaveTimer, app, render>>

\* a submitPost that empties the form whenever its insert has answered
SubmitInsertFail_ClearsInputs(i, a) ==
  /\ calls[i].kind = "submit"
  /\ calls[i].bodies[a].pc = "insert"
  /\ \E error \in SubmitErrors, jitter \in Jitters :
       LET c == [calls[i] EXCEPT !.bodies[a].pc = "insertFailed"]
       IN  calls' = [calls EXCEPT ![i] =
             IF Awaited(calls[i], a)
             THEN retryCatch(c, error, isOnline[c.browser], jitter)
             ELSE c]
  /\ postTitle' = <<>>
  /\ postContent' = <<>>
  /\ UNCHANGED <<isOnline, backendVars, cookies, shown, checkVars, pageVars, uiVars>>

\* the insert answers with an error: throw error
SubmitInsertFail(i, a) ==
  /\ calls[i].kind = "submit"
  /\ calls[i].bodies[a].pc = "insert"
  /\ \E error \in SubmitErrors, jitter \in Jitters :
       LET c == [calls[i] EXCEPT !.bodies[a].pc = "insertFailed"]
       IN  calls' = [calls EXCEPT ![i] =
             IF Awaited(calls[i], a)
             THEN retryCatch(c, error, isOnline[c.browser], jitter)
             ELSE c]
  /\ UNCHANGED <<isOnline, backendVars, browserVars, checkVars, pageVars, uiVars>>

NextSubmit ==
  \/ \E v \in FieldValues : TypeTitle(v)
  \/ \E v \in FieldValues : TypeContent(v)
  \/ SubmitPost
  \/ \E i \in DOMAIN calls : \E a \in DOMAIN calls[i].bodies : SubmitInsertOk(i, a)
  \/ \E i \in DOMAIN calls : \E a \in DOMAIN calls[i].bodies : SubmitInsertFail(i, a)
  \/ \E i \in DOMAIN calls : Timeout(i)
  \/ \E i \in DOMAIN calls : SubmitRetry(i)
  \/ NetworkChange(OpBrowser)

SpecSubmit == Init /\ [][NextSubmit]_vars

-----------------------------------------------------------------------------
(* App.loadPosts, called once by App.init *)

LoadErrors == {Err(503, TRUE, MsgServerError), Err(401, TRUE, MsgJwt)}

\* rows the select can answer with, ascending by created_at
LoadResponses == {<<>>, <<"p1">>, <<"p1", "p2">>}

\* the safeOperation call of loadPosts(isLoggedIn)
loadPostsCall(isLoggedIn) ==
  [NewCall("load", "safe", OpBrowser, NoPost, MAX_RETRIES) EXCEPT !.isLoggedIn = isLoggedIn]

\* loadPosts(isLoggedIn): safeOperation(async () => {...}, 'Load Posts', true)
LoadPosts ==
  /\ calls = <<>>
  /\ calls' = <<startAttempt(loadPostsCall(app.isLoggedIn),
                             cookies[OpBrowser], postTitle, postContent,
                             isOnline[OpBrowser], 0)>>
  /\ UNCHANGED <<isOnline, backendVars, browserVars, checkVars, pageVars, uiVars>>

\* a loadPosts that renders the rows of the response twice over
LoadFetchOk_RendersTwice(i, a) ==
  /\ calls[i].kind = "load"
  /\ calls[i].bodies[a].pc = "fetch"
  /\ \E data \in LoadResponses :
       LET c == [calls[i] EXCEPT !.bodies[a].pc = "rendered", !.bodies[a].args = data]
       IN  /\ container' = addAllToUI(addAllToUI(container, data), data)
           /\ nodes' = addAllEntries(addAllEntries(nodes, data, c.isLoggedIn),
                                     data, c.isLoggedIn)
           /\ calls' = [calls EXCEPT ![i] =
                IF Awaited(calls[i], a) THEN retryReturn(c, "data") ELSE c]
  /\ app' = initResume(app, calls'[i])
  /\ UNCHANGED <<isOnline, backendVars, browserVars, checkVars,
                 localStorage, autoSaveTimer, burst, render>>

\* the select answers with rows: every row is added to the post list
LoadFetchOk(i, a) ==
  /\ calls[i].kind = "load"
  /\ calls[i].bodies[a].pc = "fetch"
  /\ \E data \in LoadResponses :
       LET c == [calls[i] EXCEPT !.bodies[a].pc = "rendered", !.bodies[a].args = data]
       IN  /\ container' = addAllToUI(container, data)
           /\ nodes' = addAllEntries(nodes, data, c.isLoggedIn)
           /\ calls' = [calls EXCEPT ![i] =
                IF Awaited(calls[i], a) THEN retryReturn(c, "data") ELSE c]
  /\ app' = initResume(app, calls'[i])
  /\ UNCHANGED <<isOnline, backendVars, browserVars, checkVars,
                 localStorage, autoSaveTimer, burst, render>>

\* the select answers with an error: throw error
LoadFetchFail(i, a) ==
  /\ calls[i].kind = "load"
  /\ calls[i].bodies[a].pc = "fetch"
  /\ \E error \in LoadErrors, jitter \in Jitters :
       LET c == [calls[i] EXCEPT !.bodies[a].pc = "fetchFailed",
                                 !.bodies[a].args = <<error>>]
       IN  calls' = [calls EXCEPT ![i] =
             IF Awaited(calls[i], a)
             THEN retryCatch(c, error, isOnline[c.browser], jitter)
             ELSE c]
  /\ app' = initResume(app, calls'[i])
  /\ UNCHANGED <<isOnline, backendVars, browserVars, checkVars, pageVars, nodes, render>>

\* the retry loop of the loadPosts call goes round
LoadRetry(i) ==
  /\ calls[i].kind = "load"
  /\ SleepDone(i)

NextLoad ==
  \/ LoadPosts
  \/ \E i \in DOMAIN calls : \E a \in DOMAIN calls[i].bodies : LoadFetchOk(i, a)
  \/ \E i \in DOMAIN calls : \E a \in DOMAIN calls[i].bodies : LoadFetchFail(i, a)
  \/ \E i \in DOMAIN calls : Timeout(i)
  \/ \E i \in DOMAIN calls : LoadRetry(i)
  \/ NetworkChange(OpBrowser)

SpecLoad == Init /\ [][NextLoad]_vars

-----------------------------------------------------------------------------
(* App.init, from DOMContentLoaded to its end *)

SessionStates == BOOLEAN  \* whether getSession answers with a session that has a user

\* the page loads one of the two files
InitPage ==
  /\ InitProgram
  /\ NoCheck
  /\ container = <<>>
  /\ nodes = <<>>
  /\ app \in {[NoApp EXCEPT !.variant = v] : v \in Variants}

\* DOMContentLoaded: App.init runs up to `await supabase.auth.getSession()`:
\* toggleLoading(true), ErrorHandler.init()
AppInit ==
  /\ app.pc = "idle"
  /\ app' = [app EXCEPT !.pc = "session", !.loading = TRUE,
                        !.steps = Append(@, "errorListeners")]
  /\ UNCHANGED <<isOnline, calls, backendVars, browserVars, checkVars, pageVars, nodes, render>>

\* getSession resolves: isLoggedIn = !!user, AuthManager.updateUI(isLoggedIn) (a call
\* src/script.js does not make), then loadPosts(isLoggedIn) up to its first await
SessionResolved(isLoggedIn) ==
  /\ app.pc = "session"
  /\ app' = [(IF app.variant = "part_000" THEN updateUI(app, isLoggedIn) ELSE app) EXCEPT
       !.pc = "loading", !.isLoggedIn = isLoggedIn, !.session = isLoggedIn,
       !.steps = @ \o (IF app.variant = "part_000"
                       THEN <<"session", "authUI", "loadPosts">>
                       ELSE <<"session", "loadPosts">>)]
  /\ calls' = Append(calls,
       startAttempt(loadPostsCall(isLoggedIn), cookies[OpBrowser], postTitle, postContent,
                    isOnline[OpBrowser], 0))
  /\ UNCHANGED <<isOnline, backendVars, browserVars, checkVars, pageVars, nodes, render>>

\* getSession rejects: the catch block of App.init
SessionRejected ==
  /\ app.pc = "session"
  /\ app' = initCatch(app)
  /\ UNCHANGED <<isOnline, calls, backendVars, browserVars, checkVars, pageVars, nodes, render>>

NextInit ==
  \/ AppInit
  \/ \E isLoggedIn \in SessionStates : SessionResolved(isLoggedIn)
  \/ SessionRejected
  \/ \E i \in DOMAIN calls : \E a \in DOMAIN calls[i].bodies : LoadFetchOk(i, a)
  \/ \E i \in DOMAIN calls : \E a \in DOMAIN calls[i].bodies : LoadFetchFail(i, a)
  \/ \E i \in DOMAIN calls : Timeout(i)
  \/ \E i \in DOMAIN calls : LoadRetry(i)
  \/ NetworkChange(OpBrowser)

SpecInit == InitPage /\ [][NextInit]_vars

-----------------------------------------------------------------------------
(* AuthManager.login and logout on the page of part_000, in a session that *)
(* stays online.  app.session is the backend's answer to getSession: whether *)
(* the administrator is logged in.                                          *)

MaxAuthCalls == 2  \* login and logout calls in one behaviour

LoginErrors == {Err(400, TRUE, MsgInvalidLogin)}

AuthCalls == {i \in DOMAIN calls : calls[i].kind \in {"login", "logout"}}

InitAuth ==
  /\ InitPage
  /\ app.variant = "part_000"

\* login(): safeOperation(async () => {...}, 'Login', true), from the login form
\* once App.init has attached the listeners
Login ==
  /\ app.pc = "done"
  /\ Cardinality(AuthCalls) < MaxAuthCalls
  /\ calls' = Append(calls,
       startAttempt(NewCall("login", "safe", OpBrowser, NoPost, MAX_RETRIES),
                    cookies[OpBrowser], postTitle, postContent, isOnline[OpBrowser], 0))
  /\ UNCHANGED <<isOnline, backendVars, browserVars, checkVars, pageVars, uiVars>>

\* signInWithPassword answers with a session: success alert, this.updateUI(true)
LoginOk(i, a) ==
  /\ calls[i].kind = "login"
  /\ calls[i].bodies[a].pc = "signIn"
  /\ app' = [updateUI(app, TRUE) EXCEPT !.session = TRUE]
  /\ LET c == [calls[i] EXCEPT !.bodies[a].pc = "signedIn",
                               !.alerts = Append(@, "Logged in successfully as admin")]
     IN  calls' = [calls EXCEPT ![i] =
           IF Awaited(calls[i], a) THEN retryReturn(c, "data") ELSE c]
  /\ UNCHANGED <<isOnline, backendVars, browserVars, checkVars, pageVars, nodes, render>>

\* signInWithPassword answers with an error: throw error
LoginFail(i, a) ==
  /\ calls[i].kind = "login"
  /\ calls[i].bodies[a].pc = "signIn"
  /\ \E error \in LoginErrors :
       LET c == [calls[i] EXCEPT !.bodies[a].pc = "signInFailed"]
       IN  calls' = [calls EXCEPT ![i] =
             IF Awaited(calls[i], a)
             THEN retryCatch(c, error, isOnline[c.browser], 0)
             ELSE c]
  /\ UNCHANGED <<isOnline, backendVars, browserVars, checkVars, pageVars, uiVars>>

\* logout(): safeOperation(async () => {...}, 'Logout', true), from the logout button
\* once App.init has attached the listeners
Logout ==
  /\ app.pc = "done"
  /\ Cardinality(AuthCalls) < MaxAuthCalls
  /\ calls' = Append(calls,
       startAttempt(NewCall("logout", "safe", OpBrowser, NoPost, MAX_RETRIES),
                    cookies[OpBrowser], postTitle, postContent, isOnline[OpBrowser], 0))
  /\ UNCHANGED <<isOnline, backendVars, browserVars, checkVars, pageVars, uiVars>>

\* signOut has ended the session: alert, this.updateUI(false)
LogoutOk(i, a) ==
  /\ calls[i].kind = "logout"
  /\ calls[i].bodies[a].pc = "signOut"
  /\ app' = [updateUI(app, FALSE) EXCEPT !.session = FALSE]
  /\ LET c == [calls[i] EXCEPT !.bodies[a].pc = "signedOut",
                               !.alerts = Append(@, "Logged out successfully")]
     IN  calls' = [calls EXCEPT ![i] =
           IF Awaited(calls[i], a) THEN retryReturn(c, "undefined") ELSE c]
  /\ UNCHANGED <<isOnline, backendVars, browserVars, checkVars, pageVars, nodes, render>>

NextAuth ==
  \/ AppInit
  \/ \E isLoggedIn \in SessionStates : SessionResolved(isLoggedIn)
  \/ \E i \in DOMAIN calls : \E a \in DOMAIN calls[i].bodies : LoadFetchOk(i, a)
  \/ Login
  \/ \E i \in DOMAIN calls : \E a \in DOMAIN calls[i].bodies : LoginOk(i, a)
  \/ \E i \in DOMAIN calls : \E a \in DOMAIN calls[i].bodies : LoginFail(i, a)
  \/ Logout
  \/ \E i \in DOMAIN calls : \E a \in DOMAIN calls[i].bodies : LogoutOk(i, a)
  \/ \E i \in DOMAIN calls : Timeout(i)

SpecAuth == InitAuth /\ [][NextAuth]_vars

-----------------------------------------------------------------------------
(* App.setupAutoSave: the debounced draft saves of the post form, the      *)
(* restoring of a draft on focus, and the wrapper put around submitPost.   *)

\* the texts a field holds after an input event
DraftTexts == {<<>>, <<" ">>, <<"T">>, <<"U">>}

\* handleInput of createAutoSave: `if (element.value.trim()) debouncedSave(element.value)`,
\* where debouncedSave clears the pending timer and sets one holding the value
handleInput(timer, value) == IF trim(value) # <<>> THEN Timer(value) ELSE timer

\* the history of a field's burst after an input event
burstAfterInput(b, value) ==
  [phase |-> IF trim(value) # <<>> THEN "armed" ELSE "unarmed",
   writes |-> IF b.phase \in {"armed", "unarmed"} THEN b.writes ELSE 0]

\* 'input' event on #postTitle
InputTitle(v) ==
  /\ v # postTitle
  /\ postTitle' = v
  /\ autoSaveTimer' = [autoSaveTimer EXCEPT
       !["draft_post_title"] = handleInput(@, v)]
  /\ UNCHANGED <<isOnline, calls, backendVars, cookies, shown, postContent, checkVars,
                 container, localStorage, burst, uiVars>>

\* 'input' event on #postContent
InputContent(v) ==
  /\ v # postContent
  /\ postContent' = v
  /\ autoSaveTimer' = [autoSaveTimer EXCEPT
       !["draft_post_content"] = handleInput(@, v)]
  /\ burst' = burstAfterInput(burst, v)
  /\ UNCHANGED <<isOnline, calls, backendVars, cookies, shown, postTitle, checkVars,
                 container, localStorage, uiVars>>

\* the timer of a debounced save fires, AUTO_SAVE_DELAY after the input event that set
\* it: localStorage.setItem(key, value) with the value that input event passed.  When
\* that was the field's last input event, the field has been quiet for the delay.
AutoSaveFire(k) ==
  /\ autoSaveTimer[k].armed
  /\ localStorage' = [localStorage EXCEPT ![k] = Item(autoSaveTimer[k].args)]
  /\ autoSaveTimer' = [autoSaveTimer EXCEPT ![k] = NoTimer]
  /\ burst' = IF k = "draft_post_content"
              THEN [burst EXCEPT
                      !.phase = IF @ = "armed" THEN "quiet" ELSE @,
                      !.writes = IF @ < MaxCountedWrites THEN @ + 1 ELSE @]
              ELSE burst
  /\ UNCHANGED <<isOnline, calls, backendVars, browserVars, checkVars, container, uiVars>>

\* AUTO_SAVE_DELAY passes after an input event on #postContent that set no timer; a
\* timer still pending was set by an earlier input event and fires before that
QuietPeriod ==
  /\ burst.phase = "unarmed"
  /\ ~autoSaveTimer["draft_post_content"].armed
  /\ burst' = [burst EXCEPT !.phase = "quiet"]
  /\ UNCHANGED <<isOnline, calls, backendVars, browserVars, checkVars,
                 container, localStorage, autoSaveTimer, uiVars>>

\* a 'focus' listener that restores the draft whatever the field holds
restoreDraft_Always(item, value) ==
  IF item.present /\ item.value # <<>> THEN item.value ELSE value

\* the 'focus' listeners: `if (draft && !field.value.trim()) field.value = draft`
restoreDraft(item, value) ==
  IF item.present /\ item.value # <<>> /\ trim(value) = <<>> THEN item.value ELSE value

\* 'focus' event on #postTitle
FocusTitle ==
  /\ postTitle' = restoreDraft(localStorage["draft_post_title"], postTitle)
  /\ UNCHANGED <<isOnline, calls, backendVars, cookies, shown, postContent, checkVars,
                 container, localStorage, autoSaveTimer, burst, uiVars>>

\* 'focus' event on #postContent
FocusContent ==
  /\ postContent' = restoreDraft(localStorage["draft_post_content"], postContent)
  /\ burst' = IF postContent' # postContent THEN [burst EXCEPT !.phase = "none"] ELSE burst
  /\ UNCHANGED <<isOnline, calls, backendVars, cookies, shown, postTitle, checkVars,
                 container, localStorage, autoSaveTimer, uiVars>>

NextAutoSave ==
  \/ \E v \in DraftTexts : InputTitle(v)
  \/ \E v \in DraftTexts : InputContent(v)
  \/ \E k \in DraftKeys : AutoSaveFire(k)
  \/ QuietPeriod
  \/ FocusTitle
  \/ FocusContent

SpecAutoSave == Init /\ [][NextAutoSave]_vars

(* The drafts during the submissions of a session that stays online; submitPost *)
(* under online and offline changes is SpecSubmit's.                            *)

\* the texts typed into the post form when it is submitted
FormTexts == {<<>>, <<"T">>}

NextDraft ==
  \/ \E v \in FormTexts : InputTitle(v)
  \/ \E v \in FormTexts : InputContent(v)
  \/ \E k \in DraftKeys : AutoSaveFire(k)
  \/ SubmitPost
  \/ \E i \in DOMAIN calls : \E a \in DOMAIN calls[i].bodies : SubmitInsertOk(i, a)
  \/ \E i \in DOMAIN calls : \E a \in DOMAIN calls[i].bodies : SubmitInsertFail(i, a)
  \/ \E i \in DOMAIN calls : Timeout(i)
  \/ \E i \in DOMAIN calls : SubmitRetry(i)

SpecDraft == Init /\ [][NextDraft]_vars

(* The drafts during one submitPost call that may use all its MAX_RETRIES attempts *)

\* the one click on the submit button of the behaviour
SubmitPostOnce ==
  /\ calls = <<>>
  /\ \E jitter \in Jitters :
       calls' = Append(calls,
         startAttempt(NewCall("submit", "safe", OpBrowser, NoPost, MAX_RETRIES),
                      cookies[OpBrowser], postTitle, postContent,
                      isOnline[OpBrowser], jitter))
  /\ UNCHANGED <<isOnline, backendVars, browserVars, checkVars, pageVars, uiVars>>

\* the retry loop of the submitPost call goes round, as often as retryWithBackoff lets it
SubmitRetryAll(i) ==
  /\ calls[i].kind = "submit"
  /\ SleepDone(i)

NextDraftOnce ==
  \/ \E v \in FormTexts : InputTitle(v)
  \/ \E v \in FormTexts : InputContent(v)
  \/ \E k \in DraftKeys : AutoSaveFire(k)
  \/ SubmitPostOnce
  \/ \E i \in DOMAIN calls : \E a \in DOMAIN calls[i].bodies : SubmitInsertOk(i, a)
  \/ \E i \in DOMAIN calls : \E a \in DOMAIN calls[i].bodies : SubmitInsertFail(i, a)
  \/ \E i \in DOMAIN calls : Timeout(i)
  \/ \E i \in DOMAIN calls : SubmitRetryAll(i)

SpecDraftOnce == Init /\ [][NextDraftOnce]_vars

-----------------------------------------------------------------------------
(* PostManager.editPost, cancelEdit and saveEdit on the posts of a page    *)
(* that App.init has rendered for a logged-in administrator, in a session  *)
(* that stays online.                                                      *)

MaxSaveAttempts == 2  \* invocations of saveEdit's operation body in one behaviour

SaveErrors == {Err(503, TRUE, MsgServerError), Err(401, TRUE, MsgJwt)}

\* the texts typed into the inputs of an edit interface
EditTexts == {<<>>, <<"T">>}

\* the posts whose inputs the user changes and saves; the other posts are opened for
\* editing and cancelled only
ChangedPosts == {"p1"}

\* the page after App.init of part_000 with a session and the rows p1, p2; the log of
\* calls starts empty
InitEdit ==
  /\ InitProgram
  /\ NoCheck
  /\ app = [NoApp EXCEPT !.pc = "done", !.isLoggedIn = TRUE,
                         !.session = TRUE, !.authUI = "admin",
                         !.steps = <<"errorListeners", "session", "authUI",
                                     "loadPosts", "eventListeners", "autoSave">>]
  /\ nodes = addAllEntries(<<>>, <<"p1", "p2">>, TRUE)
  /\ container = <<"p2", "p1">>

\* an editPost that leaves the delete button as it is
editPost_KeepsDelete(e) ==
  [e EXCEPT !.titleHidden = TRUE, !.contentHidden = TRUE,
            !.editInterface = [inserted |-> TRUE, titleInput |-> e.title,
                               contentTextarea |-> e.content],
            !.label = "Save", !.editBtn = "saveEdit"]

\* editPost on a node: hide the delete button, createEditInterface with the title
\* shown and the source kept in data-md, hide title and content, insert the inputs,
\* turn the button into Save
editPost(e) ==
  [e EXCEPT !.deleteBtn = IF @ = "absent" THEN @ ELSE "hidden",
            !.titleHidden = TRUE, !.contentHidden = TRUE,
            !.editInterface = [inserted |-> TRUE, titleInput |-> e.title,
                               contentTextarea |-> e.content],
            !.label = "Save", !.editBtn = "saveEdit"]

\* a cancelEdit that leaves the text of the button as it is
cancelEdit_KeepsLabel(e) ==
  [e EXCEPT !.editInterface = NoEditInterface,
            !.deleteBtn = IF @ = "absent" THEN @ ELSE "shown",
            !.titleHidden = FALSE, !.contentHidden = FALSE,
            !.editBtn = "editPost"]

\* cancelEdit on a node: remove the inputs, show delete button, title and content,
\* turn the button back into Edit
cancelEdit(e) ==
  [e EXCEPT !.editInterface = NoEditInterface,
            !.deleteBtn = IF @ = "absent" THEN @ ELSE "shown",
            !.titleHidden = FALSE, !.contentHidden = FALSE,
            !.label = "Edit", !.editBtn = "editPost"]

\* a click on the Edit button of node n
EditPost(n) ==
  /\ nodes[n].attached
  /\ nodes[n].editBtn = "editPost"
  /\ nodes' = [nodes EXCEPT ![n] = editPost(@)]
  /\ UNCHANGED <<isOnline, calls, backendVars, browserVars, checkVars, pageVars, app, render>>

\* a click on the Cancel button of node n; the saveEdit calls still running for the
\* node keep the inputs that were removed
CancelEdit(n) ==
  /\ nodes[n].attached
  /\ nodes[n].editInterface.inserted
  /\ nodes' = [nodes EXCEPT ![n] = cancelEdit(@)]
  /\ calls' = [i \in DOMAIN calls |->
       IF /\ calls[i].kind = "save" /\ calls[i].node = n
          /\ ~Finished(calls[i]) /\ calls[i].editInterface = <<>>
       THEN [calls[i] EXCEPT !.editInterface = <<nodes[n].editInterface>>]
       ELSE calls[i]]
  /\ UNCHANGED <<isOnline, backendVars, browserVars, checkVars, pageVars, app, render>>

\* the user edits the title input of the edit interface of node n
TypeEditTitle(n, v) ==
  /\ nodes[n].id \in ChangedPosts
  /\ nodes[n].attached
  /\ nodes[n].editInterface.inserted
  /\ v # nodes[n].editInterface.titleInput
  /\ nodes' = [nodes EXCEPT ![n].editInterface.titleInput = v]
  /\ UNCHANGED <<isOnline, calls, backendVars, browserVars, checkVars, pageVars, app, render>>

\* the user edits the textarea of the edit interface of node n
TypeEditContent(n, v) ==
  /\ nodes[n].id \in ChangedPosts
  /\ nodes[n].attached
  /\ nodes[n].editInterface.inserted
  /\ v # nodes[n].editInterface.contentTextarea
  /\ nodes' = [nodes EXCEPT ![n].editInterface.contentTextarea = v]
  /\ UNCHANGED <<isOnline, calls, backendVars, browserVars, checkVars, pageVars, app, render>>

\* the safeOperation call of saveEdit for the button of node n
saveEditCall(n) ==
  [NewCall("save", "safe", OpBrowser, nodes[n].id, MAX_RETRIES) EXCEPT !.node = n]

\* a click on the Save button of node n: saveEdit(button, postId, originalDate,
\* editInterface, ...): safeOperation(async () => {...}, 'Save Edit', true)
SaveEdit(n) ==
  /\ AttemptsMade < MaxSaveAttempts
  /\ nodes[n].id \in ChangedPosts
  /\ nodes[n].attached
  /\ nodes[n].editBtn = "saveEdit"
  /\ \E jitter \in Jitters :
       calls' = Append(calls,
         startAttempt(saveEditCall(n), cookies[OpBrowser],
                      titleRead(saveEditCall(n)), contentRead(saveEditCall(n)),
                      isOnline[OpBrowser], jitter))
  /\ UNCHANGED <<isOnline, backendVars, browserVars, checkVars, pageVars, uiVars>>

\* the retry loop of a saveEdit call goes round, while the model's budget lasts
SaveRetry(i) ==
  /\ AttemptsMade < MaxSaveAttempts
  /\ calls[i].kind = "save"
  /\ SleepDone(i)

\* the update answers without error: the node of the button is removed (when it is
\* still in the document), addPostToUI(newTitle, newContent, originalDate, true,
\* postId) builds a new one, whose like button shows the default `likes = 0`, and
\* the success alert is shown
SaveUpdateOk(i, a) ==
  /\ calls[i].kind = "save"
  /\ calls[i].bodies[a].pc = "update"
  /\ LET c0 == calls[i]
         args == c0.bodies[a].args
         c == [c0 EXCEPT !.bodies[a].pc = "updated",
                         !.alerts = Append(@, "Post updated")]
     IN  /\ nodes' = Append([nodes EXCEPT ![c0.node].attached = FALSE],
                            NewEntry(c0.post, args[1], args[2], TRUE))
         /\ container' = ContainerOf(nodes')
         /\ shown' = IF c0.post \in Posts
                     THEN [shown EXCEPT ![c0.browser][c0.post] = 0]
                     ELSE shown
         /\ calls' = [calls EXCEPT ![i] =
              IF Awaited(c0, a) THEN retryReturn(c, "true") ELSE c]
  /\ UNCHANGED <<isOnline, backendVars, cookies, postTitle, postContent, checkVars,
                 localStorage, autoSaveTimer, burst, app, render>>

\* the update answers with an error: throw error
SaveUpdateFail(i, a) ==
  /\ calls[i].kind = "save"
  /\ calls[i].bodies[a].pc = "update"
  /\ \E error \in SaveErrors, jitter \in Jitters :
       LET c == [calls[i] EXCEPT !.bodies[a].pc = "updateFailed"]
       IN  calls' = [calls EXCEPT ![i] =
             IF Awaited(calls[i], a)
             THEN retryCatch(c, error, isOnline[c.browser], jitter)
             ELSE c]
  /\ UNCHANGED <<isOnline, backendVars, browserVars, checkVars, pageVars, uiVars>>

\* the user changes the title input only: the textarea keeps the source that
\* createEditInterface put into it
NextEdit ==
  \/ \E n \in DOMAIN nodes : EditPost(n)
  \/ \E n \in DOMAIN nodes : CancelEdit(n)
  \/ \E n \in DOMAIN nodes : \E v \in EditTexts : TypeEditTitle(n, v)
  \/ \E n \in DOMAIN nodes : SaveEdit(n)
  \/ \E i \in DOMAIN calls : \E a \in DOMAIN calls[i].bodies : SaveUpdateOk(i, a)
  \/ \E i \in DOMAIN calls : \E a \in DOMAIN calls[i].bodies : SaveUpdateFail(i, a)
  \/ \E i \in DOMAIN calls : Timeout(i)
  \/ \E i \in DOMAIN calls : SaveRetry(i)

SpecEdit == InitEdit /\ [][NextEdit]_vars

(* Likes and edits of the rendered posts on a backend that answers every   *)
(* request: no failure, no timeout, no retry.                              *)
NextEditLiked ==
  \/ \E b \in Browsers, p \in Posts : RacingLikePost(b, p)
  \/ \E i \in DOMAIN calls : \E a \in DOMAIN calls[i].bodies : LikeReadOk(i, a)
  \/ \E i \in DOMAIN calls : \E a \in DOMAIN calls[i].bodies : LikeWriteOk(i, a)
  \/ \E n \in DOMAIN nodes : EditPost(n)
  \/ \E n \in DOMAIN nodes : CancelEdit(n)
  \/ \E n \in DOMAIN nodes : SaveEdit(n)
  \/ \E i \in DOMAIN calls : \E a \in DOMAIN calls[i].bodies : SaveUpdateOk(i, a)

SpecEditLiked == InitEdit /\ [][NextEditLiked]_vars

-----------------------------------------------------------------------------
(* One post through addPostToUI and then editPost, for every text *)

InitRender ==
  /\ InitProgram
  /\ NoPage
  /\ probe = NoProbe
  /\ verdict = "unset"
  /\ friendly = "unset"
  /\ render \in {[NoRender EXCEPT !.phase = "input", !.title = t, !.content = c, !.date = d] :
                   t \in TitleTexts, c \in ContentTexts, d \in DateTexts}

\* UIManager.addPostToUI: the markup assigned to postElement.innerHTML, as parsed:
\* the text of <h2> and of <span class="date">, the data-md attribute of <p>, and
\* the markup marked made of the content
RenderPost ==
  /\ render.phase = "input"
  /\ render' = [render EXCEPT
       !.phase = "rendered",
       !.h2 = parseText(escapeHtml(render.title)),
       !.md = parseAttribute(encodeURIComponent(render.content)),
       !.p = markedParse(render.content),
       !.span = parseText(escapeHtml(render.date))]
  /\ UNCHANGED <<isOnline, calls, backendVars, browserVars, checkVars, pageVars, app, nodes>>

\* PostManager.editPost: createEditInterface(titleEl.innerText,
\* contentEl.dataset.md ? decodeURIComponent(contentEl.dataset.md) : contentEl.innerText);
\* a URIError lands in the catch block of editPost
RenderEdit ==
  /\ render.phase = "rendered"
  /\ LET currentContent == IF render.md # <<>> THEN decodeURIComponent(render.md)
                           ELSE innerTextOf(render.p)
     IN  render' = IF currentContent = URIError
                   THEN [render EXCEPT !.phase = "editFailed"]
                   ELSE [render EXCEPT !.phase = "editing",
                                       !.titleInput = render.h2.text,
                                       !.contentTextarea = currentContent]
  /\ UNCHANGED <<isOnline, calls, backendVars, browserVars, checkVars, pageVars, app, nodes>>

NextRender == RenderPost \/ RenderEdit

SpecRender == InitRender /\ [][NextRender]_vars

-----------------------------------------------------------------------------
(* Properties of retryWithBackoff and safeOperation (Spec) *)

\* retryWithBackoff ended by `throw lastError`
RetryThrew(c) == c.pc = "thrown" \/ (c.pc = "returned" /\ c.result = "null")

AllRetryable(c) == \A k \in DOMAIN c.classes : c.classes[k]

\* C1: when every failure of a retryWithBackoff run is classified retryable, the
\* operation is never invoked more than N = maxRetries times, the run throws only
\* after exactly N invocations, and once N attempts have failed it has thrown.
C1_ExactlyNAttempts ==
  \A i \in DOMAIN calls :
    LET c == calls[i]
    IN  AllRetryable(c) =>
          /\ Len(c.bodies) <= c.maxRetries
          /\ RetryThrew(c) => Len(c.bodies) = c.maxRetries
          /\ Len(c.classes) = c.maxRetries => RetryThrew(c)

\* a run with N = 4 in which four attempts failed retryably while online, and which threw
C1_Witness ==
  \E i \in DOMAIN calls :
    /\ calls[i].mode = "retry"
    /\ calls[i].maxRetries = 4
    /\ Len(calls[i].classes) = 4
    /\ AllRetryable(calls[i])
    /\ calls[i].pc = "thrown"
    /\ calls[i].nDelays = 3
    /\ isOnline[calls[i].browser]

\* C2: when the failure of attempt 1 is classified non-retryable, the operation is
\* invoked exactly once, no backoff delay is waited, and the run throws that failure.
C2_NonRetryableOnce ==
  \A i \in DOMAIN calls :
    LET c == calls[i]
    IN  (Len(c.classes) >= 1 /\ ~c.classes[1]) =>
          /\ RetryThrew(c)
          /\ Len(c.bodies) = 1
          /\ c.nDelays = 0
          /\ c.lastError = c.firstError
          /\ c.mode = "retry" => c.thrown = c.firstError

\* a run allowed 3 attempts that threw a status-401 failure after its first attempt
C2_Witness ==
  \E i \in DOMAIN calls :
    /\ calls[i].mode = "retry"
    /\ calls[i].maxRetries = 3
    /\ calls[i].classes = <<FALSE>>
    /\ calls[i].pc = "thrown"
    /\ calls[i].thrown = <<Err(401, TRUE, MsgNotFound)>>

\* C4: safeOperation never propagates a failure: a safeOperation call that has
\* ended has returned (a result or the null sentinel), it has not thrown.
C4_NeverPropagates ==
  \A i \in DOMAIN calls :
    calls[i].mode = "safe" => calls[i].pc # "thrown"

\* C12: while a retryWithBackoff run waits before attempt k (k > 1), the delay it
\* waits is at least 1000 * 2^(k-2) and less than 1000 * 2^(k-2) + 1000 milliseconds:
\* within [1000, 2000) before attempt 2 and within [2000, 3000) before attempt 3.
C12_DelayRange ==
  \A i \in DOMAIN calls :
    (calls[i].kind = "op" /\ calls[i].pc = "sleep") =>
      LET k == calls[i].attempt + 1
          delay == calls[i].delay
      IN  /\ delay >= 1000 * Pow2(k - 2)
          /\ delay < 1000 * Pow2(k - 2) + 1000
          /\ k = 2 => (delay >= 1000 /\ delay < 2000)
          /\ k = 3 => (delay >= 2000 /\ delay < 3000)

\* a run waiting 2999 ms before its third attempt
C12_Witness ==
  \E i \in DOMAIN calls :
    /\ calls[i].kind = "op"
    /\ calls[i].pc = "sleep"
    /\ calls[i].attempt = 2
    /\ calls[i].delay = 2999

\* C14: an attempt of safeOperation ends in one of three ways.  The operation
\* resolved first: its result is returned.  The operation rejected first: its
\* failure is the attempt's failure.  The timer fired first: the attempt's failure
\* is the timeout failure, and the operation is still pending, not cancelled.
C14_TimeoutRace ==
  [][\A i \in DOMAIN calls :
       ( /\ i \in DOMAIN calls'
         /\ calls[i].mode = "safe"
         /\ calls[i].pc = "await"
         /\ calls'[i].pc # "await" ) =>
         LET a == calls[i].attempt
             after == calls'[i]
         IN  \/ /\ after.bodies[a].pc = "resolved"
                /\ after.pc = "returned"
                /\ after.result = "data"
             \/ /\ after.bodies[a].pc = "rejected"
                /\ after.lastError # <<>>
                /\ after.lastError[1] \in OpErrors
             \/ /\ after.bodies[a].pc = "pending"
                /\ after.lastError = <<TimeoutError(after.kind)>>]_vars

\* the timer of attempt 1 fired, the call ended with that failure, and the
\* operation of attempt 1 resolved afterwards
C14_Witness ==
  \E i \in DOMAIN calls :
    /\ calls[i].mode = "safe"
    /\ calls[i].pc = "returned"
    /\ calls[i].result = "null"
    /\ calls[i].lastError = <<TimeoutError(calls[i].kind)>>
    /\ Len(calls[i].bodies) = 1
    /\ calls[i].bodies[1].pc = "resolved"

\* C16: a safeOperation call whose final failure is the failure of withTimeout's
\* timer, caught while the client is online (so the offline message is not the
\* one shown), shows the timeout message.
C16_TimeoutMessage ==
  \A i \in DOMAIN calls :
    ( /\ calls[i].mode = "safe"
      /\ calls[i].pc = "returned"
      /\ calls[i].result = "null"
      /\ calls[i].lastError = <<TimeoutError(calls[i].kind)>>
      /\ calls[i].alerts # <<"offline">> )
    => calls[i].alerts = <<"timeout">>

-----------------------------------------------------------------------------
(* Properties of isRetryableError (SpecClassify) *)

\* s contains pat at some offset, letters compared without regard to case
ContainsIgnoringCase(s, pat) ==
  \E off \in 0..(Len(s) - Len(pat)) :
    \A k \in 1..Len(pat) : LowerChar(s[off + k]) = LowerChar(pat[k])

ProbeMessage == IF probe.error.hasMessage THEN probe.error.message ELSE <<>>

ClaimedPatterns == {
  <<"n","e","t","w","o","r","k">>,
  <<"t","i","m","e","o","u","t">>,
  <<"c","o","n","n","e","c","t","i","o","n">>,
  <<"r","a","t","e"," ","l","i","m","i","t">>,
  <<"s","e","r","v","e","r"," ","e","r","r","o","r">> }

CodePatterns == {
  <<"n","e","t","w","o","r","k"," ","e","r","r","o","r">>,
  <<"t","i","m","e","o","u","t">>,
  <<"c","o","n","n","e","c","t","i","o","n">>,
  <<"r","a","t","e"," ","l","i","m","i","t">>,
  <<"s","e","r","v","e","r"," ","e","r","r","o","r">> }

RetryableBy(patterns) ==
  \/ ~probe.online
  \/ probe.error.status \in {408, 429, 500, 502, 503, 504}
  \/ \E pat \in patterns : ContainsIgnoringCase(ProbeMessage, pat)

-----------------------------------------------------------------------------
(* Properties of getUserFriendlyErrorMessage (SpecClassify, Spec) *)

\* the message chosen by the first matching rule of the stated order
FirstMatchingRule ==
  IF ~probe.online THEN "offline"
  ELSE IF includes(ProbeMessage, <<"t","i","m","e","o","u","t">>) THEN "timeout"
  ELSE IF includes(ProbeMessage, <<"r","a","t","e"," ","l","i","m","i","t">>) THEN "rateLimit"
  ELSE IF probe.error.status >= 500 THEN "server"
  ELSE IF probe.error.status \in {401, 403} THEN "auth"
  ELSE "generic"

\* C15: the message chosen for a failure is that of the first matching rule among:
\* client offline, message contains "timeout", message contains "rate limit",
\* status >= 500, status 401 or 403, and the generic message otherwise.
C15_FirstMatchingRule ==
  friendly # "unset" => friendly = FirstMatchingRule

NoTransientPattern(error) ==
  ~\E pat \in CodePatterns : ContainsIgnoringCase(messageOrEmpty(error), pat)

\* C17: a safeOperation call whose first attempt failed with status 401 or 403 and
\* no transient pattern in the message has ended after that one attempt, without
\* a backoff delay, and has shown the re-authentication message.
C17_AuthNotRetried ==
  \A i \in DOMAIN calls :
    ( /\ calls[i].mode = "safe"
      /\ calls[i].firstError # <<>>
      /\ calls[i].firstError[1].status \in {401, 403}
      /\ NoTransientPattern(calls[i].firstError[1]) )
    => /\ Len(calls[i].bodies) = 1
       /\ calls[i].nDelays = 0
       /\ calls[i].pc = "returned"
       /\ calls[i].alerts = <<"auth">>

-----------------------------------------------------------------------------
(* Properties of likePost (SpecLike) *)

LikeBodies ==
  {x \in (DOMAIN calls) \X (1..MAX_RETRIES) :
     calls[x[1]].kind = "like" /\ x[2] \in DOMAIN calls[x[1]].bodies}

BodyOf(x) == calls[x[1]].bodies[x[2]]

\* C5: over any interleaving of likePost calls of one browser whose cookies are
\* never cleared, at most one backend write of that browser raises the like
\* count of a given post.
C5_AtMostOneIncrement ==
  \A b \in Browsers, p \in Posts :
    Cardinality({x \in LikeBodies : /\ calls[x[1]].browser = b
                                    /\ calls[x[1]].post = p
                                    /\ BodyOf(x).up}) <= 1

\* C6: hasLiked(id) is true in exactly the states in which some likePost body of
\* this browser has completed its write for id: false before the first success,
\* true ever after, and untouched by bodies that failed at the read or the write.
C6_HasLikedIffRecorded ==
  \A b \in Browsers, p \in Posts :
    hasLiked(cookies[b], p) <=>
      \E x \in LikeBodies : /\ calls[x[1]].browser = b
                            /\ calls[x[1]].post = p
                            /\ BodyOf(x).pc = "recorded"

\* a call whose first attempt failed at the write and whose second attempt recorded the like
C6_Witness ==
  \E i \in DOMAIN calls :
    /\ calls[i].kind = "like"
    /\ Len(calls[i].bodies) = 2
    /\ calls[i].bodies[1].pc = "writeFailed"
    /\ calls[i].bodies[2].pc = "recorded"
    /\ hasLiked(cookies[calls[i].browser], calls[i].post)

\* C7: a likePost call made while hasLiked(id) is true issues no remote call,
\* ends at once, and the step that makes it leaves the backend count, the
\* cookies and the displayed counts unchanged.
C7_AlreadyLikedNoOp ==
  [][\A i \in DOMAIN calls' :
       (calls'[i].kind = "like" /\ calls'[i].likedAtCall) =>
         /\ calls'[i].remote = 0
         /\ Finished(calls'[i])
         /\ i \notin DOMAIN calls =>
              (likes' = likes /\ cookies' = cookies /\ shown' = shown)]_vars

\* a call made after the browser's like was recorded
C7_Witness ==
  \E i \in DOMAIN calls :
    /\ calls[i].kind = "like"
    /\ calls[i].likedAtCall
    /\ calls[i].result = "false"
    /\ likes[calls[i].post] = 1

\* C8: a likePost call made while the post is already liked returns an outcome
\* different from the one returned by a call that recorded a new like.
C8_DistinctOutcomes ==
  \A i, j \in DOMAIN calls :
    ( /\ calls[i].kind = "like" /\ calls[i].likedAtCall /\ Finished(calls[i])
      /\ calls[j].kind = "like" /\ calls[j].result = "true" )
    => likePostReturn(calls[i]) # likePostReturn(calls[j])

\* C9: when two browsers each complete likePost on a post from the same read
\* count (both reads before either write) and theirs are the only writes, the
\* backend count has grown by 1, not by 2.
C9_LostUpdate ==
  \A x, y \in LikeBodies :
    ( /\ calls[x[1]].browser # calls[y[1]].browser
      /\ calls[x[1]].post = calls[y[1]].post
      /\ calls[x[1]].result = "true" /\ calls[y[1]].result = "true"
      /\ BodyOf(x).pc = "recorded" /\ BodyOf(y).pc = "recorded"
      /\ BodyOf(x).data = BodyOf(y).data
      /\ Cardinality({z \in LikeBodies : /\ calls[z[1]].post = calls[x[1]].post
                                         /\ BodyOf(z).pc = "recorded"}) = 2 )
    => likes[calls[x[1]].post] = BodyOf(x).data + 1

\* both browsers returned success, both wrote from the read count 0, the count is 1
C9_Witness ==
  \E i, j \in DOMAIN calls :
    /\ calls[i].kind = "like" /\ calls[j].kind = "like"
    /\ calls[i].browser = "b1" /\ calls[j].browser = "b2"
    /\ calls[i].post = calls[j].post
    /\ calls[i].result = "true" /\ calls[j].result = "true"
    /\ calls[i].bodies[1].data = 0 /\ calls[j].bodies[1].data = 0
    /\ likes[calls[i].post] = 1
    /\ cookies["b1"] = {calls[i].post} /\ cookies["b2"] = {calls[i].post}

-----------------------------------------------------------------------------
(* Properties of submitPost (SpecSubmit) *)

InvalidArgs(body) == trim(body.args[1]) = <<>> \/ trim(body.args[2]) = <<>>

ValidationAlerts(c) ==
  Cardinality({k \in DOMAIN c.alerts :
                 c.alerts[k] \in {"Title cannot be empty", "Content cannot be empty"}})

SubmitBodies ==
  {x \in (DOMAIN calls) \X (1..MAX_RETRIES) :
     calls[x[1]].kind = "submit" /\ x[2] \in DOMAIN calls[x[1]].bodies}

\* C10: an attempt of submitPost that reads an empty or whitespace-only title or
\* content sends no insert and raises a validation alert; a submitPost call
\* whose attempts all read such fields issues zero remote calls, and no row of
\* the backend comes from such an attempt.
C10_InvalidSubmitNoRemote ==
  /\ \A x \in SubmitBodies : InvalidArgs(BodyOf(x)) => BodyOf(x).pc = "invalid"
  /\ \A i \in DOMAIN calls :
       calls[i].kind = "submit" =>
         /\ ValidationAlerts(calls[i]) =
              Cardinality({a \in DOMAIN calls[i].bodies : InvalidArgs(calls[i].bodies[a])})
         /\ (\A a \in DOMAIN calls[i].bodies : InvalidArgs(calls[i].bodies[a]))
              => calls[i].remote = 0
  /\ rows = Cardinality({x \in SubmitBodies :
                           BodyOf(x).pc = "added" /\ ~InvalidArgs(BodyOf(x))})

\* an offline submitPost with a whitespace-only title, validated and rejected on two attempts
C10_Witness ==
  \E i \in DOMAIN calls :
    /\ calls[i].kind = "submit"
    /\ Len(calls[i].bodies) = 2
    /\ calls[i].bodies[1].args = << <<" ">>, <<"T">> >>
    /\ calls[i].bodies[2].args = << <<" ">>, <<"T">> >>
    /\ calls[i].remote = 0
    /\ rows = 0
    /\ calls[i].alerts[1] = "Title cannot be empty"

\* C11: an attempt of submitPost that failed validation is the last attempt of its
\* call, whatever the online flag: the call has ended, and no backoff delay was
\* begun after that attempt.
C11_ValidationNotRetried ==
  \A x \in SubmitBodies :
    BodyOf(x).pc = "invalid" =>
      /\ Len(calls[x[1]].bodies) = x[2]
      /\ calls[x[1]].nDelays = x[2] - 1
      /\ Finished(calls[x[1]])

\* C18: a submitPost call that ended in failure has shown exactly one message to
\* the user, whatever the failure and however many attempts were made.
C18_OneMessage ==
  \A i \in DOMAIN calls :
    (calls[i].kind = "submit" /\ calls[i].pc = "returned" /\ calls[i].result = "null")
      => Len(calls[i].alerts) = 1

-----------------------------------------------------------------------------
(* Properties of loadPosts (SpecLoad) *)

\* the number of nodes of the post list that carry the id
Rendered(id) == Cardinality({k \in DOMAIN container : container[k] = id})

\* C13: loadPosts never makes a fourth attempt; and when the fetch of attempts 1
\* and 2 failed with status 503 and the fetch of attempt 3 answered with rows,
\* exactly 2 backoff delays were waited and the post list holds the rows of that
\* answer, each once, and nothing else.
C13_TwoFailuresThenSuccess ==
  \A i \in DOMAIN calls :
    calls[i].kind = "load" =>
      /\ Len(calls[i].bodies) <= 3
      /\ ( /\ Len(calls[i].bodies) = 3
           /\ calls[i].bodies[1].pc = "fetchFailed"
           /\ calls[i].bodies[1].args[1].status = 503
           /\ calls[i].bodies[2].pc = "fetchFailed"
           /\ calls[i].bodies[2].args[1].status = 503
           /\ calls[i].bodies[3].pc = "rendered" )
         => LET data == calls[i].bodies[3].args
            IN  /\ calls[i].nDelays = 2
                /\ Finished(calls[i])
                /\ Len(container) = Len(data)
                /\ \A k \in DOMAIN data : Rendered(data[k]) = 1

\* two 503 failures, then the rows p1 and p2: both are listed once, the call returned them
C13_Witness ==
  \E i \in DOMAIN calls :
    /\ calls[i].kind = "load"
    /\ Len(calls[i].bodies) = 3
    /\ calls[i].bodies[1].pc = "fetchFailed"
    /\ calls[i].bodies[1].args[1].status = 503
    /\ calls[i].bodies[2].pc = "fetchFailed"
    /\ calls[i].bodies[2].args[1].status = 503
    /\ calls[i].bodies[3].pc = "rendered"
    /\ calls[i].bodies[3].args = <<"p1", "p2">>
    /\ calls[i].result = "data"
    /\ calls[i].nDelays = 2
    /\ container = <<"p2", "p1">>
    /\ isOnline[calls[i].browser]

-----------------------------------------------------------------------------
(* Properties of the drafts (SpecAutoSave, SpecDraft) *)

\* C19: once the content field has been quiet for the auto-save delay after a
\* burst of input events, exactly one draft write has happened in the burst and
\* the persisted content draft is the text the field holds, whatever that text is.
C19_DraftEqualsFinalText ==
  burst.phase = "quiet" =>
    /\ burst.writes = 1
    /\ localStorage["draft_post_content"] = Item(postContent)

\* C20: the step in which a submitPost call returns its new post leaves neither
\* draft key in local storage.
C20_DraftsCleared ==
  [][\A i \in DOMAIN calls' :
       ( /\ calls'[i].kind = "submit"
         /\ calls'[i].result = "newPost"
         /\ i \in DOMAIN calls => calls[i].result # "newPost" )
       => \A k \in DraftKeys : ~localStorage'[k].present]_vars

\* a content draft was written, then a submitPost call returned its new post,
\* and no draft key is left
C20_Witness ==
  \E i \in DOMAIN calls :
    /\ calls[i].kind = "submit"
    /\ calls[i].result = "newPost"
    /\ burst.writes = 1
    /\ \A k \in DraftKeys : ~localStorage[k].present
    /\ ~autoSaveTimer["draft_post_content"].armed

-----------------------------------------------------------------------------
(* Properties of attempts that overlap or outlive their call *)

\* an operation body that has been started and has not yet settled
InFlight(body) == body.pc \in {"pending", "read", "write", "insert", "fetch", "update"}

Reverse(s) == [k \in 1..Len(s) |-> s[Len(s) + 1 - k]]

\* C24: addPostToUI puts the new node at the head of the post list, so once
\* loadPosts has returned the rows of its fetch (ascending by creation time) the
\* post list is those rows in newest-first order.
C24_NewestFirst ==
  \A i \in DOMAIN calls :
    (calls[i].kind = "load" /\ calls[i].result = "data")
      => container = Reverse(calls[i].bodies[calls[i].attempt].args)

\* C25: of the operation bodies started by one call, at most one is in flight at
\* any time; a retry attempt does not start while an earlier attempt of the call
\* is still running.
C25_OneInFlight ==
  \A i \in DOMAIN calls :
    Cardinality({a \in DOMAIN calls[i].bodies : InFlight(calls[i].bodies[a])}) <= 1

\* C29: a safeOperation call that ended on the failure of its own per-attempt
\* timeout while the client was online has made every attempt it is allowed:
\* the timeout was retried while attempts remained.
C29_OnlineTimeoutRetried ==
  \A i \in DOMAIN calls :
    ( /\ calls[i].mode = "safe"
      /\ calls[i].pc = "returned"
      /\ calls[i].lastError = <<TimeoutError(calls[i].kind)>>
      /\ calls[i].alerts # <<>>
      /\ calls[i].alerts[Len(calls[i].alerts)] # "offline" )
    => Len(calls[i].bodies) = calls[i].maxRetries

\* C30: a likePost call that has returned false after an error message was shown
\* has no operation body that wrote the like count, the liked cookie and the
\* displayed count, and none that can still do so.
C30_FailedLikeChangesNothing ==
  \A i \in DOMAIN calls :
    ( /\ calls[i].kind = "like"
      /\ calls[i].pc = "returned"
      /\ calls[i].result = "null"
      /\ calls[i].alerts # <<>> )
    => \A a \in DOMAIN calls[i].bodies :
         calls[i].bodies[a].pc \notin {"read", "write", "recorded"}

-----------------------------------------------------------------------------
(* Termination of safeOperation, with timers that fire *)

\* a withTimeout timer is running: the step \E i : Timeout(i) is enabled
TimerDue == \E i \in DOMAIN calls : calls[i].mode = "safe" /\ calls[i].pc = "await"

\* setTimeout: the timer of sleep and the timer of withTimeout fire once they are
\* due.  Both are weak fairness; that of the withTimeout timer is written out,
\* with TimerDue for ENABLED <<\E i : Timeout(i)>>_vars.
FairSpec ==
  /\ Init
  /\ [][Next]_vars
  /\ WF_vars(\E i \in DOMAIN calls : SleepDone(i))
  /\ ([]<>(~TimerDue) \/ []<><<\E i \in DOMAIN calls : Timeout(i)>>_vars)

SafePending == calls # <<>> /\ calls[1].mode = "safe" /\ ~Finished(calls[1])
SafeReturned == calls # <<>> /\ calls[1].mode = "safe" /\ calls[1].pc = "returned"
SafeEnded == calls # <<>> /\ calls[1].mode = "safe" /\ Finished(calls[1])

\* a safeOperation call that is running comes to an end, by returning or by throwing
SafeOperationEnds == SafePending ~> SafeEnded

\* C26: every safeOperation call that is running eventually returns, a result or
\* null, even when the wrapped operation never settles.
C26_EventuallyReturns == SafePending ~> SafeReturned

-----------------------------------------------------------------------------
(* Properties of the 'focus' listeners (SpecAutoSave) *)

\* the field after a focus event that restores the draft when `restores` holds
AfterFocus(item, value, restores) == IF restores THEN item.value ELSE value

\* a focus event restores the draft exactly when a draft is persisted and the
\* field is the empty string
C21_AsClaimed ==
  [][ /\ FocusTitle =>
           LET item == localStorage["draft_post_title"]
           IN  postTitle' = AfterFocus(item, postTitle, item.present /\ postTitle = <<>>)
      /\ FocusContent =>
           LET item == localStorage["draft_post_content"]
           IN  postContent' = AfterFocus(item, postContent, item.present /\ postContent = <<>>)
      /\ (FocusTitle \/ FocusContent) => localStorage' = localStorage ]_vars

\* C21: a focus event on the title or content field restores the persisted draft
\* into the field exactly when a draft is persisted and the field is empty or
\* holds only whitespace; a focus on a field that holds other text leaves the
\* field unchanged, and focus never changes the persisted draft.
C21_FocusRestores ==
  [][ /\ FocusTitle =>
           LET item == localStorage["draft_post_title"]
           IN  postTitle' = AfterFocus(item, postTitle,
                                       item.present /\ trim(postTitle) = <<>>)
      /\ FocusContent =>
           LET item == localStorage["draft_post_content"]
           IN  postContent' = AfterFocus(item, postContent,
                                         item.present /\ trim(postContent) = <<>>)
      /\ (FocusTitle \/ FocusContent) => localStorage' = localStorage ]_vars

\* the content field holds the draft again after it was cleared: only a focus
\* event sets the field while the burst history is reset
C21_Witness ==
  /\ postContent = <<"T">>
  /\ localStorage["draft_post_content"] = Item(<<"T">>)
  /\ burst.phase = "none"
  /\ ~autoSaveTimer["draft_post_content"].armed

-----------------------------------------------------------------------------
(* Properties of the text of a rendered post (SpecRender) *)

\* C27: for every Markdown source of a rendered post, the text editPost loads
\* into the edit textarea equals that source: decoding the data-md attribute
\* gives back what was encoded into it, not the rendered markup.
C27_SourceRecovered ==
  /\ render.phase # "editFailed"
  /\ render.phase = "editing" => render.contentTextarea = render.content

\* a source that itself looks percent-encoded comes back as it was typed
C27_Witness ==
  /\ render.phase = "editing"
  /\ render.content = <<"%","2","5">>
  /\ render.md = <<"%","2","5","2","5">>
  /\ render.contentTextarea = <<"%","2","5">>

\* C28: for every title and date, the text of the rendered title node is the
\* literal title and that of the date node the literal date, nothing in them was
\* read as markup, and the content node holds what marked made of the content.
C28_TitleAndDateLiteral ==
  render.phase \in {"rendered", "editing"} =>
    /\ render.h2 = [text |-> render.title, tags |-> 0]
    /\ render.span = [text |-> render.date, tags |-> 0]
    /\ render.p = markedParse(render.content)

\* a title made of tags and a date made of a tag are shown as typed
C28_Witness ==
  /\ render.phase = "rendered"
  /\ render.title = <<"<","b",">","a","<","/","b",">">>
  /\ render.h2.text = <<"<","b",">","a","<","/","b",">">>
  /\ render.date = <<"<","b",">">>
  /\ render.span.tags = 0

-----------------------------------------------------------------------------
(* Properties of App.init (SpecInit) *)

\* the order stated for the steps of initialization
InitOrder == <<"errorListeners", "session", "authUI", "loadPosts",
               "eventListeners", "autoSave">>

Rank(step) == CHOOSE k \in DOMAIN InitOrder : InitOrder[k] = step

\* C22: the steps App.init has performed are steps of the stated order, each at
\* most once and none before a step that precedes it in the order; in
\* src/unnamed/part_000 they are always the first steps of that order, none left out.
C22_InitOrder ==
  /\ \A k \in DOMAIN app.steps : \E r \in DOMAIN InitOrder : InitOrder[r] = app.steps[k]
  /\ \A j, k \in DOMAIN app.steps : j < k => Rank(app.steps[j]) < Rank(app.steps[k])
  /\ app.variant = "part_000" => app.steps = SubSeq(InitOrder, 1, Len(app.steps))

\* init has run to its end in part_000 after the fetch failed twice and then answered
C22_Witness ==
  /\ app.variant = "part_000"
  /\ app.pc = "done"
  /\ app.steps = InitOrder
  /\ ~app.loading
  /\ Len(calls) = 1
  /\ Len(calls[1].bodies) = 3
  /\ calls[1].result = "data"

-----------------------------------------------------------------------------
(* Properties of the edit state of the rendered posts (SpecEdit) *)

\* the two states of a rendered post, by what editPost and cancelEdit set on its node
Viewing(e) ==
  /\ ~e.titleHidden /\ ~e.contentHidden
  /\ e.deleteBtn # "hidden"
  /\ ~e.editInterface.inserted
  /\ e.editBtn # "saveEdit" /\ e.label # "Save"

Editing(e) ==
  /\ e.titleHidden /\ e.contentHidden
  /\ e.deleteBtn # "shown"
  /\ e.editInterface.inserted
  /\ e.editBtn = "saveEdit" /\ e.label = "Save"

\* the nodes other than n are what they were
OthersKept(n) == \A m \in DOMAIN nodes : m # n => nodes'[m] = nodes[m]

\* the call i is a saveEdit that comes to its end in this step
SaveEnds(i) ==
  /\ i \in DOMAIN calls'
  /\ calls'[i].kind = "save"
  /\ Finished(calls'[i])
  /\ i \in DOMAIN calls => ~Finished(calls[i])

\* every rendered post is either Viewing or Editing
C23_OneOfTwoStates ==
  \A n \in DOMAIN nodes :
    nodes[n].attached => (Viewing(nodes[n]) # Editing(nodes[n]))

\* C23: each rendered post is in exactly one of the states Viewing and Editing;
\* editPost takes the post from Viewing to Editing and cancelEdit from Editing to
\* Viewing; the step in which a saveEdit call returns true leaves the post shown by
\* a node in Viewing, the step in which it ends in failure leaves every node as it
\* was; and none of these steps changes the node of another post.
C23_EditStates ==
  [][ /\ \A n \in DOMAIN nodes' :
           nodes'[n].attached => (Viewing(nodes'[n]) # Editing(nodes'[n]))
      /\ \A n \in DOMAIN nodes :
           /\ EditPost(n) =>
                Viewing(nodes[n]) /\ Editing(nodes'[n]) /\ OthersKept(n)
           /\ CancelEdit(n) =>
                Editing(nodes[n]) /\ Viewing(nodes'[n]) /\ OthersKept(n)
      /\ \A i \in DOMAIN calls' :
           SaveEnds(i) =>
             LET n == calls'[i].node
                 new == Len(nodes')
             IN  IF calls'[i].result = "true"
                 THEN /\ new = Len(nodes) + 1
                      /\ nodes'[new].id = calls'[i].post
                      /\ nodes'[new].attached /\ Viewing(nodes'[new])
                      /\ ~nodes'[n].attached
                      /\ OthersKept(n)
                 ELSE nodes' = nodes ]_vars

\* the saveEdit of p1 has returned true and p1 is shown in Viewing by a new node,
\* while p2 is in Editing with its title in the input of its edit interface
C23_Witness ==
  \E i \in DOMAIN calls :
    /\ calls[i].kind = "save"
    /\ calls[i].result = "true"
    /\ calls[i].post = "p1"
    /\ ~nodes[1].attached
    /\ Len(nodes) = 3
    /\ nodes[3].id = "p1" /\ nodes[3].attached /\ Viewing(nodes[3])
    /\ Editing(nodes[2])
    /\ nodes[2].editInterface.titleInput = nodes[2].title
    /\ container = <<"p1", "p2">>

-----------------------------------------------------------------------------
(* Properties of the abandoned attempts of likePost (SpecLike) *)

\* C31: one likePost call raises the backend like count at most once over all of
\* its attempts, those that timed out and went on running included.
C31_OneCallOneIncrement ==
  \A i \in DOMAIN calls :
    calls[i].kind = "like" =>
      Cardinality({a \in DOMAIN calls[i].bodies : calls[i].bodies[a].up}) <= 1

\* C32: no step lowers the backend like count of a post, whatever the interleaving
\* of the likePost calls of the browsers.
C32_LikesNeverDecrease ==
  [][\A p \in Posts : likes'[p] >= likes[p]]_vars

-----------------------------------------------------------------------------
(* Properties of the drafts around a submission (SpecDraft) *)

\* a submitPost call has returned its new post
SubmitSucceeded ==
  \E i \in DOMAIN calls : calls[i].kind = "submit" /\ calls[i].result = "newPost"

\* every insert that was applied belongs to a call that returned its new post
NoHiddenInsert ==
  \A i \in DOMAIN calls : \A a \in DOMAIN calls[i].bodies :
    calls[i].bodies[a].pc = "added" => calls[i].result = "newPost"

\* C33: once a submitPost call has returned its new post and removed the draft
\* keys, no save scheduled before it writes the content draft: while no input
\* event on #postContent has followed the submission, draft_post_content is not
\* written.
C33_NoWriteBack ==
  [][(SubmitSucceeded /\ NoHiddenInsert /\ burst.phase = "none")
       => ~AutoSaveFire("draft_post_content")]_vars

-----------------------------------------------------------------------------
(* Properties of a successful saveEdit (SpecEditLiked, SpecEdit) *)

\* C34: the step in which a saveEdit call returns true leaves the like count
\* displayed for the edited post as it was.
C34_LikeCountKept ==
  [][\A i \in DOMAIN calls' :
       (SaveEnds(i) /\ calls'[i].result = "true" /\ calls'[i].post \in Posts)
         => shown'[calls'[i].browser][calls'[i].post]
              = shown[calls'[i].browser][calls'[i].post]]_vars

\* C35: the step in which a saveEdit call returns true leaves the post list in the
\* order it had, the edited post at its position.
C35_PositionKept ==
  [][\A i \in DOMAIN calls' :
       (SaveEnds(i) /\ calls'[i].result = "true") => container' = container]_vars

-----------------------------------------------------------------------------
(* Properties of login and logout (SpecAuth) *)

\* the node has its edit and its delete button
HasControls(e) == e.editBtn # "absent" /\ e.deleteBtn # "absent"

\* C36: once App.init is done, every rendered post has its edit and delete
\* buttons exactly when the administrator is logged in.
C36_ControlsIffLoggedIn ==
  app.pc = "done" =>
    \A n \in DOMAIN nodes :
      nodes[n].attached => (HasControls(nodes[n]) <=> app.session)

-----------------------------------------------------------------------------
(* Properties of editPost followed by cancelEdit (SpecEdit) *)

\* texts the inputs of an edit interface may hold when Cancel is clicked
TypedTexts == {<<>>, <<" ">>, <<"T">>, <<"U">>}

\* the step makes no remote call and changes nothing at the backend
NoRemoteCall ==
  /\ likes' = likes /\ rows' = rows
  /\ Len(calls') = Len(calls)
  /\ \A i \in DOMAIN calls :
       calls'[i].remote = calls[i].remote /\ calls'[i].bodies = calls[i].bodies

\* C37: editPost followed by cancelEdit is the identity on the node of the post.
\* Whatever the inputs hold when Cancel is clicked, cancelEdit turns the node that
\* editPost has left into the node editPost was given: title and content shown,
\* the delete button as it was, the button labelled Edit and calling editPost. The
\* Cancel click does what cancelEdit says, and neither click makes a remote call
\* or changes another node.
C37_EditCancelIdentity ==
  [][\A n \in DOMAIN nodes :
       /\ EditPost(n) =>
            /\ \A t, c \in TypedTexts :
                 cancelEdit([nodes'[n] EXCEPT !.editInterface.titleInput = t,
                                              !.editInterface.contentTextarea = c])
                   = nodes[n]
            /\ NoRemoteCall /\ OthersKept(n)
       /\ CancelEdit(n) =>
            /\ nodes'[n] = cancelEdit(nodes[n])
            /\ nodes'[n] = NewEntry(nodes[n].id, nodes[n].title, nodes[n].content, TRUE)
            /\ NoRemoteCall /\ OthersKept(n)]_vars

\* Cancel was clicked on p1 while a saveEdit of it was running: the node is the
\* one addPostToUI built, and the call holds the inputs that were removed
C37_Witness ==
  \E i \in DOMAIN calls :
    /\ calls[i].kind = "save"
    /\ calls[i].editInterface # <<>>
    /\ calls[i].remote = 1
    /\ nodes[calls[i].node].attached
    /\ nodes[calls[i].node] = NewEntry("p1", RowText, RowText, TRUE)

\* C38: once a saveEdit call has reported failure (it returned null after its
\* alert), no later step of that call changes the rendered posts: an update of it
\* that answers afterwards leaves the nodes and the post list as they are.
C38_FailedSaveChangesNothing ==
  [][\A i \in DOMAIN calls :
       (calls[i].kind = "save" /\ calls[i].result = "null" /\ calls[i].alerts # <<>>) =>
         \A a \in DOMAIN calls[i].bodies :
           SaveUpdateOk(i, a) => (nodes' = nodes /\ container' = container)]_vars

\* the call ends in this step without a new post: submitPost returns false
SubmitFailsNow(i) ==
  /\ calls'[i].kind = "submit"
  /\ Finished(calls'[i])
  /\ calls'[i].result # "newPost"
  /\ i \in DOMAIN calls => ~Finished(calls[i])

\* C39: a submitPost that fails, for an invalid field, for a backend error or after
\* its last retry, changes neither a draft key of localStorage nor the title or the
\* content field of the form
C39_FailedSubmitKeepsText ==
  [][\A i \in DOMAIN calls' :
       SubmitFailsNow(i) =>
         /\ localStorage' = localStorage
         /\ postTitle' = postTitle
         /\ postContent' = postContent]_vars

\* a call that failed after its third attempt, with both drafts saved and both fields filled
C39_Witness ==
  \E i \in DOMAIN calls :
    /\ calls[i].kind = "submit"
    /\ calls[i].pc = "returned"
    /\ calls[i].result = "null"
    /\ calls[i].attempt = MAX_RETRIES
    /\ \A a \in DOMAIN calls[i].bodies : calls[i].bodies[a].pc = "insertFailed"
    /\ \A k \in DraftKeys : localStorage[k] = Item(<<"T">>)
    /\ postTitle = <<"T">>
    /\ postContent = <<"T">>

-----------------------------------------------------------------------------
(* The end of App.init (SpecInit) *)

\* whether init has performed the step
Performed(step) == \E k \in DOMAIN app.steps : app.steps[k] = step

\* App.init has ended, through its try block or through its catch block
InitEnded == app.pc \in {"done", "failed"}

\* the session was resolved and loadPosts has rendered the rows it was answered
PostsLoaded ==
  /\ Performed("session")
  /\ \E i \in DOMAIN calls : calls[i].kind = "load" /\ calls[i].result = "data"

\* C40: an App.init of src/script.js that has ended with the session resolved and the
\* posts loaded has attached the event listeners, started auto-save and ended through
\* its try block; in both files the loading overlay is hidden when init has ended
C40_InitEndsNormally ==
  /\ (app.variant = "script.js" /\ InitEnded /\ PostsLoaded) =>
       /\ app.pc = "done"
       /\ Performed("eventListeners")
       /\ Performed("autoSave")
  /\ InitEnded => ~app.loading

====
